---- MODULE Spec2Model ----
(***************************************************************************)
(* A model of the generic B-tree engine (btree.rs) over the slab backend   *)
(* (slab.rs): the arena of nodes, the root, the length, and the keyed and  *)
(* addressed operations that search, insert, remove and rebalance.         *)
(*                                                                         *)
(* Offsets are integers, -1 standing for the "before" offset (usize::MAX   *)
(* in Offset); node ids are the slab's slot indices, NoId standing for an  *)
(* absent Option<usize>; an Option<T> value is the sequence <<>> (None) or *)
(* <<x>> (Some(x)).                                                        *)
(***************************************************************************)
EXTENDS Integers, Sequences, FiniteSets, TLC

\* Knuth order of the slab nodes.
M == 8

\* Keys of the free operations are 1..MaxKey.
MaxKey == 9
\* Payloads are 1..MaxVal.
MaxVal == 2
\* remove_at on an address past the items is taken while len is less than
\* MaxDrift below the number of stored items.
MaxDrift == 1
\* The ascending build inserts the keys 1..DeepLen.
DeepLen == 44

NoId == -1
None == <<>>
Some(x) == <<x>>

Keys == 1..MaxKey
\* The keys operated on once the tree of three levels is built.
DeepKeys == {1, 2, 3, 20, 26, 27, 28}
\* The keys that are given any payload; the others are only given payload 1.
AltKeys == {5}
Vals(k) == IF k \in AltKeys THEN 1..MaxVal ELSE {1}

VARIABLES nodes, free, root, len, amap, phase

vars == <<nodes, free, root, len, amap, phase>>

----------------------------------------------------------------------------
\* Items, offsets and addresses.

Item(k, v) == [key |-> k, value |-> v]

Addr(id, offset) == [id |-> id, offset |-> offset]
Nowhere == [id |-> NoId, offset |-> 0]
is_nowhere(addr) == addr.id = NoId

offset_decr(o) == IF o <= 0 THEN -1 ELSE o - 1
offset_incr(o) == IF o = -1 THEN 0 ELSE o + 1

\* The offset as the code holds it: an unsigned integer, the greatest one
\* standing for "before".  The width is 16 bits here.  An operation answers
\* the offset, or panics; an overflow of the unsigned arithmetic panics in a
\* build with overflow checks (debug) and wraps in a build without.
USIZE_MAX == 65535

Offset_before == USIZE_MAX
Offset_from(n) == n
Offset_is_before(a) == a = USIZE_MAX

Done(o) == [panic |-> FALSE, overflow |-> FALSE, o |-> o]
Panicked == [panic |-> TRUE, overflow |-> FALSE, o |-> 0]
Overflowed(o, debug) == [panic |-> debug, overflow |-> TRUE, o |-> IF debug THEN 0 ELSE o]

Offset_incr(a) == IF a = USIZE_MAX THEN 0 ELSE a + 1
Offset_decr(a) == IF a = 0 \/ a = USIZE_MAX THEN USIZE_MAX ELSE a - 1

\* partial_cmp and cmp answer Less.
Offset_lt(a, b) ==
    IF a = USIZE_MAX \/ b = USIZE_MAX THEN a = USIZE_MAX /\ b # USIZE_MAX
    ELSE a < b

Offset_sub_usize(a, rhs, debug) ==
    IF a = USIZE_MAX THEN Panicked
    ELSE IF a >= rhs THEN Done(a - rhs)
    ELSE IF rhs + 1 > USIZE_MAX
         THEN IF debug THEN Overflowed(0, debug)
              ELSE IF 0 = a THEN Overflowed(USIZE_MAX, debug)
              ELSE [Panicked EXCEPT !.overflow = TRUE]
    ELSE IF rhs + 1 = a THEN Done(USIZE_MAX)
    ELSE Panicked

Offset_sub(a, b, debug) ==
    IF a = USIZE_MAX THEN IF b = USIZE_MAX THEN Done(0) ELSE Panicked
    ELSE Offset_sub_usize(a, b, debug)

Offset_add_usize(a, rhs, debug) ==
    IF a = USIZE_MAX
    THEN IF rhs < 1 THEN Overflowed(USIZE_MAX, debug) ELSE Done(rhs - 1)
    ELSE IF a + rhs > USIZE_MAX THEN Overflowed((a + rhs) % (USIZE_MAX + 1), debug)
    ELSE Done(a + rhs)

Offset_add(a, b, debug) ==
    IF a = USIZE_MAX
    THEN IF b = USIZE_MAX THEN Panicked ELSE Offset_sub_usize(b, 1, debug)
    ELSE Offset_add_usize(a, b, debug)

----------------------------------------------------------------------------
\* Node buffers: a leaf holds items, an internal node holds items and the
\* child ids around them (children[1] is the first child, children[i + 1] the
\* right child of item i).

LeafNode(parent, items) ==
    [leaf |-> TRUE, parent |-> parent, items |-> items, children |-> <<>>]
InternalNode(parent, items, children) ==
    [leaf |-> FALSE, parent |-> parent, items |-> items, children |-> children]

item_count(n) == Len(n.items)
child_count(n) == IF n.leaf THEN 0 ELSE item_count(n) + 1
child_id(n, index) ==
    IF n.leaf THEN NoId
    ELSE IF index + 1 \in DOMAIN n.children THEN n.children[index + 1] ELSE NoId

RECURSIVE child_index_from(_, _, _)
child_index_from(n, id, i) ==
    IF i >= child_count(n) THEN -1
    ELSE IF child_id(n, i) = id THEN i
    ELSE child_index_from(n, id, i + 1)
child_index(n, id) == IF n.leaf THEN -1 ELSE child_index_from(n, id, 0)

max_capacity(n) == IF n.leaf THEN M + 1 ELSE M
\* min_capacity computed from the order M for both kinds of node.
min_capacity_of_order(n) ==
    IF n.leaf THEN (M - 1) \div 2 - 1
    ELSE M \div 2 - 1

min_capacity(n) ==
    IF n.leaf THEN (max_capacity(n) - 1) \div 2 - 1
    ELSE max_capacity(n) \div 2 - 1
is_overflowing(n) == item_count(n) >= max_capacity(n)
is_underflowing(n) == item_count(n) < min_capacity(n)
balance(n) ==
    IF is_overflowing(n) THEN [kind |-> "Overflow", empty |-> FALSE]
    ELSE IF is_underflowing(n)
         THEN [kind |-> "Underflow", empty |-> item_count(n) = 0]
    ELSE [kind |-> "Balanced", empty |-> FALSE]

\* Sequence helpers for the vector operations of the node buffers.
SeqInsert(s, i, x) == SubSeq(s, 1, i) \o <<x>> \o SubSeq(s, i + 1, Len(s))
SeqRemove(s, i) == SubSeq(s, 1, i - 1) \o SubSeq(s, i + 1, Len(s))
SeqSet(s, i, x) == [s EXCEPT ![i] = x]

----------------------------------------------------------------------------
\* Search inside a node.

RECURSIVE bsm_loop(_, _, _, _)
bsm_loop(items, key, i, j) ==
    IF j - i > 1
    THEN LET k == (i + j) \div 2
         IN  IF items[k + 1].key > key
             THEN bsm_loop(items, key, i, k)
             ELSE bsm_loop(items, key, k, j)
    ELSE [found |-> TRUE, i |-> i, eq |-> items[i + 1].key = key]

binary_search_min(items, key) ==
    IF Len(items) = 0 \/ items[1].key > key
    THEN [found |-> FALSE, i |-> 0, eq |-> FALSE]
    ELSE LET j == Len(items) - 1
         IN  IF items[j + 1].key <= key
             THEN [found |-> TRUE, i |-> j, eq |-> items[j + 1].key = key]
             ELSE bsm_loop(items, key, 0, j)

\* offset_of with the offset of a miss one short: the offset of the last item
\* not greater than the key instead of the one after it.
offset_of_short(n, key) ==
    LET r == binary_search_min(n.items, key)
    IN  IF r.found
        THEN IF r.eq
             THEN [ok |-> TRUE, offset |-> r.i, child |-> NoId]
             ELSE [ok |-> FALSE, offset |-> r.i, child |-> child_id(n, r.i)]
        ELSE [ok |-> FALSE, offset |-> 0, child |-> child_id(n, 0)]

\* Ok(offset), or Err((index, child id)) with child = NoId in a leaf.
offset_of(n, key) ==
    LET r == binary_search_min(n.items, key)
    IN  IF r.found
        THEN IF r.eq
             THEN [ok |-> TRUE, offset |-> r.i, child |-> NoId]
             ELSE [ok |-> FALSE, offset |-> r.i + 1, child |-> child_id(n, r.i + 1)]
        ELSE [ok |-> FALSE, offset |-> 0, child |-> child_id(n, 0)]

\* node_get descending on a miss into the child on the left of the last item
\* not greater than the key instead of the child on its right.
node_get_left(n, key) ==
    LET r == binary_search_min(n.items, key)
    IN  IF r.found /\ r.eq
        THEN [ok |-> TRUE, item |-> Some(n.items[r.i + 1]), child |-> NoId]
        ELSE IF n.leaf
             THEN [ok |-> TRUE, item |-> None, child |-> NoId]
             ELSE [ok |-> FALSE, item |-> None,
                   child |-> child_id(n, IF r.found THEN r.i ELSE 0)]

\* Ok(Option<item>) on a leaf or a hit, Err(child id) otherwise.
node_get(n, key) ==
    LET r == binary_search_min(n.items, key)
    IN  IF r.found /\ r.eq
        THEN [ok |-> TRUE, item |-> Some(n.items[r.i + 1]), child |-> NoId]
        ELSE IF n.leaf
             THEN [ok |-> TRUE, item |-> None, child |-> NoId]
             ELSE [ok |-> FALSE, item |-> None,
                   child |-> child_id(n, IF r.found THEN r.i + 1 ELSE 0)]

----------------------------------------------------------------------------
\* The slab storage: S = [nodes, free, root, len].  nodes maps each occupied
\* slot to its node; free is the slab's chain of vacant slots, most recently
\* released first.

Storage(ns, fr, r, l) == [nodes |-> ns, free |-> fr, root |-> r, len |-> l]

is_empty(S) == S.root = NoId

has_node(S, id) == id \in DOMAIN S.nodes

set_node(S, id, n) == [S EXCEPT !.nodes = [S.nodes EXCEPT ![id] = n]]

set_parent(S, id, parent) == set_node(S, id, [S.nodes[id] EXCEPT !.parent = parent])

allocate_node(S, node) ==
    LET id == IF S.free # <<>> THEN Head(S.free)
              ELSE Cardinality(DOMAIN S.nodes)
        fr == IF S.free # <<>> THEN Tail(S.free) ELSE S.free
    IN  [S |-> [S EXCEPT !.nodes = (id :> node) @@ S.nodes, !.free = fr],
         id |-> id]

\* release_node leaving the node in the storage.
release_node_kept(S, id) == S

release_node(S, id) ==
    [S EXCEPT !.nodes = [x \in (DOMAIN S.nodes) \ {id} |-> S.nodes[x]],
              !.free = <<id>> \o S.free]

RECURSIVE set_children_parent(_, _, _, _)
set_children_parent(S, children, i, parent) ==
    IF i > Len(children) THEN S
    ELSE set_children_parent(set_parent(S, children[i], parent), children, i + 1, parent)

\* insert_node that allocates the node and leaves the parent of its children
\* as it was.
insert_node_only(S, node) == allocate_node(S, node)

insert_node(S, node) ==
    LET a == allocate_node(S, node)
    IN  [S |-> set_children_parent(a.S, node.children, 1, a.id), id |-> a.id]

----------------------------------------------------------------------------
\* Lookup.

RECURSIVE get_in(_, _, _)
get_in(S, key, id) ==
    LET r == node_get(S.nodes[id], key)
    IN  IF r.ok THEN r.item ELSE get_in(S, key, r.child)

get(S, key) == IF S.root # NoId THEN get_in(S, key, S.root) ELSE None

RECURSIVE address_in(_, _, _)
address_in(S, id, key) ==
    LET r == offset_of(S.nodes[id], key)
    IN  IF r.ok THEN [ok |-> TRUE, addr |-> Addr(id, r.offset)]
        ELSE IF r.child = NoId THEN [ok |-> FALSE, addr |-> Addr(id, r.offset)]
        ELSE address_in(S, r.child, key)

address_of(S, key) ==
    IF S.root # NoId THEN address_in(S, S.root, key)
    ELSE [ok |-> FALSE, addr |-> Nowhere]

item_at(S, addr) ==
    IF has_node(S, addr.id) /\ addr.offset >= 0
       /\ addr.offset < item_count(S.nodes[addr.id])
    THEN Some(S.nodes[addr.id].items[addr.offset + 1])
    ELSE None

RECURSIVE first_item_address_in(_, _)
first_item_address_in(S, id) ==
    LET c == child_id(S.nodes[id], 0)
    IN  IF c # NoId THEN first_item_address_in(S, c) ELSE Some(Addr(id, 0))
first_item_address(S) ==
    IF S.root # NoId THEN first_item_address_in(S, S.root) ELSE None

RECURSIVE last_item_address_in(_, _)
last_item_address_in(S, id) ==
    LET index == item_count(S.nodes[id])
        c == child_id(S.nodes[id], index)
    IN  IF c # NoId THEN last_item_address_in(S, c) ELSE Some(Addr(id, index - 1))
last_item_address(S) ==
    IF S.root # NoId THEN last_item_address_in(S, S.root) ELSE None

RECURSIVE first_back_address_in(_, _)
first_back_address_in(S, id) ==
    LET c == child_id(S.nodes[id], 0)
    IN  IF c # NoId THEN first_back_address_in(S, c) ELSE Addr(id, 0)
first_back_address(S) ==
    IF S.root # NoId THEN first_back_address_in(S, S.root) ELSE Nowhere

RECURSIVE last_valid_address_in(_, _)
last_valid_address_in(S, id) ==
    LET index == item_count(S.nodes[id])
        c == child_id(S.nodes[id], index)
    IN  IF c # NoId THEN last_valid_address_in(S, c) ELSE Addr(id, index)
last_valid_address(S) ==
    IF S.root # NoId THEN last_valid_address_in(S, S.root) ELSE Nowhere

\* The climb of next_item_or_back_address once a leaf position is reached.
RECURSIVE nioba_up(_, _, _)
nioba_up(S, addr, shifted) ==
    LET node == S.nodes[addr.id]
    IN  IF addr.offset < item_count(node) THEN Some(addr)
        ELSE IF node.parent # NoId
             THEN nioba_up(S, Addr(node.parent,
                                   child_index(S.nodes[node.parent], addr.id)), shifted)
             ELSE Some(shifted)

RECURSIVE nioba_down(_, _, _)
nioba_down(S, addr, shifted) ==
    LET c == child_id(S.nodes[addr.id], addr.offset)
    IN  IF c # NoId THEN nioba_down(S, Addr(c, 0), shifted)
        ELSE nioba_up(S, addr, shifted)

next_item_or_back_address(S, addr) ==
    IF is_nowhere(addr) THEN None
    ELSE LET count == item_count(S.nodes[addr.id])
         IN  IF addr.offset > count THEN None
             ELSE LET a == IF addr.offset < count
                           THEN Addr(addr.id, offset_incr(addr.offset))
                           ELSE addr
                  IN  nioba_down(S, a, a)

----------------------------------------------------------------------------
\* Node-level mutation.

node_insert(n, offset, item, right_child_id) ==
    IF n.leaf THEN [n EXCEPT !.items = SeqInsert(n.items, offset, item)]
    ELSE [n EXCEPT !.items = SeqInsert(n.items, offset, item),
                   !.children = SeqInsert(n.children, offset + 1, right_child_id)]

\* (node left, item removed, its right child or NoId)
node_remove(n, offset) ==
    IF n.leaf
    THEN [n |-> [n EXCEPT !.items = SeqRemove(n.items, offset + 1)],
          item |-> n.items[offset + 1], child |-> NoId]
    ELSE [n |-> [n EXCEPT !.items = SeqRemove(n.items, offset + 1),
                          !.children = SeqRemove(n.children, offset + 2)],
          item |-> n.items[offset + 1], child |-> n.children[offset + 2]]

node_replace(n, offset, item) == [n EXCEPT !.items = SeqSet(n.items, offset + 1, item)]

set_first_child(n, child) ==
    IF n.leaf THEN n ELSE [n EXCEPT !.children = SeqSet(n.children, 1, child)]

\* split building the right half of an internal node without its children.
split_flat(n) ==
    LET count == item_count(n)
        median_i == (count - 1) \div 2
        left == IF n.leaf THEN LeafNode(n.parent, SubSeq(n.items, 1, median_i))
                ELSE InternalNode(n.parent, SubSeq(n.items, 1, median_i),
                                  SubSeq(n.children, 1, median_i + 1))
        right == LeafNode(n.parent, SubSeq(n.items, median_i + 2, count))
    IN  [n |-> left, len |-> item_count(left), median |-> n.items[median_i + 1],
         right |-> right]

\* (node left, number of items left, median item, new right buffer)
split(n) ==
    LET count == item_count(n)
        median_i == (count - 1) \div 2
        left == IF n.leaf THEN LeafNode(n.parent, SubSeq(n.items, 1, median_i))
                ELSE InternalNode(n.parent, SubSeq(n.items, 1, median_i),
                                  SubSeq(n.children, 1, median_i + 1))
        right == IF n.leaf
                 THEN LeafNode(n.parent, SubSeq(n.items, median_i + 2, count))
                 ELSE InternalNode(n.parent, SubSeq(n.items, median_i + 2, count),
                                   SubSeq(n.children, median_i + 2, count + 1))
    IN  [n |-> left, len |-> item_count(left), median |-> n.items[median_i + 1],
         right |-> right]

\* (node after, offset of the separator)
node_append(n, separator, other) ==
    [n |-> [n EXCEPT !.items = n.items \o <<separator>> \o other.items,
                     !.children = n.children \o other.children],
     offset |-> item_count(n)]

\* pop_left refusing only a node already under its least count, so that it
\* takes an item from a node at its least count.
pop_left_late(n) ==
    IF item_count(n) < min_capacity(n) THEN [ok |-> FALSE]
    ELSE LET r == node_remove(n, 0)
         IN  [ok |-> TRUE, n |-> set_first_child(r.n, r.child),
              child |-> child_id(n, 0), item |-> r.item]

\* Ok((first child, item), node left) or Err(WouldUnderflow).
pop_left(n) ==
    IF item_count(n) <= min_capacity(n) THEN [ok |-> FALSE]
    ELSE LET r == node_remove(n, 0)
         IN  [ok |-> TRUE, n |-> set_first_child(r.n, r.child),
              child |-> child_id(n, 0), item |-> r.item]

\* Ok((offset, item, right child), node left) or Err(WouldUnderflow).
pop_right(n) ==
    IF item_count(n) <= min_capacity(n) THEN [ok |-> FALSE]
    ELSE LET offset == item_count(n) - 1
             r == node_remove(n, offset)
         IN  [ok |-> TRUE, n |-> r.n, offset |-> offset, item |-> r.item,
              child |-> r.child]

push_left(n, child, item) ==
    set_first_child(node_insert(n, 0, item, child_id(n, 0)), child)

push_right(n, item, child) == node_insert(n, item_count(n), item, child)

\* split as the code moves the items: the branches right of the median are
\* removed from the last to the first, then the median, and the branches are
\* pushed to the new node in their order.  taken lists (item, right child).
RECURSIVE split_take(_, _, _, _, _)
split_take(n, median_i, right_len, i, taken) ==
    IF i >= right_len THEN [n |-> n, taken |-> taken]
    ELSE LET r == node_remove(n, median_i + right_len - i)
         IN  split_take(r.n, median_i, right_len, i + 1,
                        Append(taken, [item |-> r.item, child |-> r.child]))

RECURSIVE split_give(_, _, _)
split_give(right_node, taken, j) ==
    IF j < 1 THEN right_node
    ELSE split_give(push_right(right_node, taken[j].item, taken[j].child), taken, j - 1)

\* split_moving with the median taken one place to the right.
split_moving_late(n) ==
    LET median_i == item_count(n) \div 2
        right_len == item_count(n) - median_i - 1
        t == split_take(n, median_i, right_len, 0, <<>>)
        m == node_remove(t.n, median_i)
        right_node == IF n.leaf THEN LeafNode(n.parent, <<>>)
                      ELSE InternalNode(n.parent, <<>>, <<m.child>>)
    IN  [n |-> m.n, len |-> item_count(m.n), median |-> m.item,
         right |-> split_give(right_node, t.taken, Len(t.taken))]

split_moving(n) ==
    LET median_i == (item_count(n) - 1) \div 2
        right_len == item_count(n) - median_i - 1
        t == split_take(n, median_i, right_len, 0, <<>>)
        m == node_remove(t.n, median_i)
        right_node == IF n.leaf THEN LeafNode(n.parent, <<>>)
                      ELSE InternalNode(n.parent, <<>>, <<m.child>>)
    IN  [n |-> m.n, len |-> item_count(m.n), median |-> m.item,
         right |-> split_give(right_node, t.taken, Len(t.taken))]

----------------------------------------------------------------------------
\* Rebalancing.  Each operator returns the storage and the caller's address
\* rewritten for the structural change.

\* try_rotate_left giving up whatever the right sibling holds.
try_rotate_left_never(S, id, deficient_child_index, addr) ==
    [ok |-> FALSE, S |-> S, addr |-> addr]

try_rotate_left(S, id, deficient_child_index, addr) ==
    LET pivot_offset == deficient_child_index
        right_sibling_index == deficient_child_index + 1
        node == S.nodes[id]
        right_sibling_id == child_id(node, right_sibling_index)
        deficient_child_id == child_id(node, deficient_child_index)
        rotate(left) ==
            IF ~left.ok THEN [ok |-> FALSE, S |-> S, addr |-> addr]
            ELSE
            LET S1 == set_node(S, right_sibling_id, left.n)
                value == S1.nodes[id].items[pivot_offset + 1]
                S2 == set_node(S1, id, node_replace(S1.nodes[id], pivot_offset, left.item))
                left_offset == item_count(S2.nodes[deficient_child_id])
                S3 == set_node(S2, deficient_child_id,
                               push_right(S2.nodes[deficient_child_id], value, left.child))
                new_addr ==
                    IF addr.id = right_sibling_id
                    THEN IF addr.offset = 0 THEN Addr(id, pivot_offset)
                         ELSE Addr(addr.id, offset_decr(addr.offset))
                    ELSE IF addr.id = id /\ addr.offset = pivot_offset
                         THEN Addr(deficient_child_id, left_offset)
                    ELSE addr
            IN  [ok |-> TRUE,
                 S |-> IF left.child # NoId
                       THEN set_parent(S3, left.child, deficient_child_id) ELSE S3,
                 addr |-> new_addr]
    IN  IF right_sibling_index >= child_count(node)
        THEN [ok |-> FALSE, S |-> S, addr |-> addr]
        ELSE rotate(pop_left(S.nodes[right_sibling_id]))

try_rotate_right(S, id, deficient_child_index, addr) ==
    LET left_sibling_index == deficient_child_index - 1
        pivot_offset == left_sibling_index
        node == S.nodes[id]
        left_sibling_id == child_id(node, left_sibling_index)
        deficient_child_id == child_id(node, deficient_child_index)
        rotate(right) ==
            IF ~right.ok THEN [ok |-> FALSE, S |-> S, addr |-> addr]
            ELSE
            LET S1 == set_node(S, left_sibling_id, right.n)
                value == S1.nodes[id].items[pivot_offset + 1]
                S2 == set_node(S1, id, node_replace(S1.nodes[id], pivot_offset, right.item))
                S3 == set_node(S2, deficient_child_id,
                               push_left(S2.nodes[deficient_child_id], right.child, value))
                new_addr ==
                    IF addr.id = deficient_child_id
                    THEN Addr(addr.id, offset_incr(addr.offset))
                    ELSE IF addr.id = left_sibling_id
                         THEN IF addr.offset = right.offset THEN Addr(id, pivot_offset)
                              ELSE addr
                    ELSE IF addr.id = id /\ addr.offset = pivot_offset
                         THEN Addr(deficient_child_id, 0)
                    ELSE addr
            IN  [ok |-> TRUE,
                 S |-> IF right.child # NoId
                       THEN set_parent(S3, right.child, deficient_child_id) ELSE S3,
                 addr |-> new_addr]
    IN  IF deficient_child_index > 0
        THEN rotate(pop_right(S.nodes[left_sibling_id]))
        ELSE [ok |-> FALSE, S |-> S, addr |-> addr]

merge(S, id, deficient_child_index, addr) ==
    LET offset == IF deficient_child_index > 0 THEN deficient_child_index - 1
                  ELSE deficient_child_index
        left_id == child_id(S.nodes[id], offset)
        join(r) ==
            LET right_id == r.child
                right_node == S.nodes[right_id]
                S2 == release_node(set_node(S, id, r.n), right_id)
                S3 == set_children_parent(S2, right_node.children, 1, left_id)
                left_offset == item_count(S.nodes[left_id])
                new_addr ==
                    IF addr.id = id
                    THEN IF addr.offset = offset THEN Addr(left_id, left_offset)
                         ELSE IF addr.offset > offset
                              THEN Addr(addr.id, offset_decr(addr.offset))
                         ELSE addr
                    ELSE IF addr.id = right_id
                         THEN Addr(left_id, addr.offset + left_offset + 1)
                    ELSE addr
            IN  [S |-> set_node(S3, left_id,
                                node_append(S3.nodes[left_id], r.item, right_node).n),
                 balance |-> balance(r.n), addr |-> new_addr]
    IN  join(node_remove(S.nodes[id], offset))

\* The address rewritten after the node id was split around median_offset.
\* The address left as it was across a split.
split_addr_stale(addr, id, median_offset, up, right_id) == addr

split_addr(addr, id, median_offset, up, right_id) ==
    IF addr.id = id
    THEN IF addr.offset = median_offset THEN up
         ELSE IF addr.offset > median_offset
              THEN Addr(right_id, addr.offset - median_offset - 1)
         ELSE addr
    ELSE addr

RECURSIVE rebalance_loop(_, _, _, _)
rebalance_loop(S, id, addr, bal) ==
    LET overflow(sp) ==
            LET attach(ins) ==
                    LET S2 == ins.S
                        right_id == ins.id
                        parent_id == S2.nodes[id].parent
                        in_parent(offset) ==
                            LET parent == node_insert(S2.nodes[parent_id], offset,
                                                      sp.median, right_id)
                                new_addr ==
                                    IF addr.id = id
                                    THEN split_addr(addr, id, sp.len,
                                                    Addr(parent_id, offset), right_id)
                                    ELSE IF addr.id = parent_id /\ addr.offset >= offset
                                         THEN Addr(addr.id, offset_incr(addr.offset))
                                    ELSE addr
                            IN  rebalance_loop(set_node(S2, parent_id, parent), parent_id,
                                               new_addr, balance(parent))
                        new_root(nr) ==
                            [S |-> set_parent(set_parent([nr.S EXCEPT !.root = nr.id],
                                                         id, nr.id),
                                              right_id, nr.id),
                             addr |-> split_addr(addr, id, sp.len, Addr(nr.id, 0), right_id)]
                    IN  IF parent_id # NoId
                        THEN in_parent(child_index(S2.nodes[parent_id], id))
                        ELSE new_root(insert_node(S2, InternalNode(NoId, <<sp.median>>,
                                                                   <<id, right_id>>)))
            IN  attach(insert_node(set_node(S, id, sp.n), sp.right))
        parent_id == S.nodes[id].parent
        after_merge(m) == rebalance_loop(m.S, parent_id, m.addr, m.balance)
        after_rotate_right(index, rr) ==
            IF rr.ok THEN [S |-> rr.S, addr |-> rr.addr]
            ELSE after_merge(merge(S, parent_id, index, addr))
        after_rotate_left(index, rl) ==
            IF rl.ok THEN [S |-> rl.S, addr |-> rl.addr]
            ELSE after_rotate_right(index, try_rotate_right(S, parent_id, index, addr))
        underflow(index) ==
            after_rotate_left(index, try_rotate_left(S, parent_id, index, addr))
        collapse(first_child) ==
            LET S1 == [S EXCEPT !.root = first_child]
                S2 == IF first_child # NoId THEN set_parent(S1, first_child, NoId) ELSE S1
                new_addr ==
                    IF first_child # NoId
                    THEN IF addr.id = id
                         THEN Addr(first_child, item_count(S.nodes[first_child]))
                         ELSE addr
                    ELSE Nowhere
            IN  [S |-> release_node(S2, id), addr |-> new_addr]
    IN  IF bal.kind = "Balanced" THEN [S |-> S, addr |-> addr]
        ELSE IF bal.kind = "Overflow" THEN overflow(split(S.nodes[id]))
        ELSE IF parent_id # NoId THEN underflow(child_index(S.nodes[parent_id], id))
        ELSE IF bal.empty THEN collapse(child_id(S.nodes[id], 0))
        ELSE [S |-> S, addr |-> addr]

rebalance(S, id, addr) == rebalance_loop(S, id, addr, balance(S.nodes[id]))

----------------------------------------------------------------------------
\* Insertion, removal and update.

incr_len(S) == [S EXCEPT !.len = S.len + 1]
\* decr_len leaving len as it is.
decr_len_kept(S) == S
decr_len(S) == [S EXCEPT !.len = S.len - 1]

\* (storage after, address of the inserted item).  The code panics on the
\* address nowhere in a tree that is not empty and on any other address in an
\* empty tree: no action gives it such an address.
insert_exactly_at(S, addr, item, opt_right_id) ==
    LET as_root(ins) ==
            [S |-> incr_len([ins.S EXCEPT !.root = ins.id]), addr |-> Addr(ins.id, 0)]
        rebalanced(r) == [S |-> incr_len(r.S), addr |-> r.addr]
    IN  IF is_nowhere(addr)
        THEN as_root(insert_node(S, LeafNode(NoId, <<item>>)))
        ELSE rebalanced(rebalance(set_node(S, addr.id,
                                           node_insert(S.nodes[addr.id], addr.offset,
                                                       item, opt_right_id)),
                                  addr.id, addr))

\* insert_exactly_at with its two panics: (storage after, address of the
\* item, panic).
insert_exactly_at_unguarded(S, addr, item, opt_right_id) ==
    IF ~is_nowhere(addr) /\ is_empty(S) THEN [S |-> S, addr |-> addr, panic |-> TRUE]
    ELSE [S |-> insert_exactly_at(S, addr, item, opt_right_id).S,
          addr |-> insert_exactly_at(S, addr, item, opt_right_id).addr,
          panic |-> FALSE]

insert_exactly_at_or_panic(S, addr, item, opt_right_id) ==
    IF is_nowhere(addr) # is_empty(S) THEN [S |-> S, addr |-> addr, panic |-> TRUE]
    ELSE [S |-> insert_exactly_at(S, addr, item, opt_right_id).S,
          addr |-> insert_exactly_at(S, addr, item, opt_right_id).addr,
          panic |-> FALSE]

\* The address in a leaf that denotes the same position.
RECURSIVE leaf_address(_, _)
leaf_address(S, addr) ==
    IF is_nowhere(addr) THEN addr
    ELSE LET c == child_id(S.nodes[addr.id], addr.offset)
         IN  IF c # NoId THEN leaf_address(S, Addr(c, item_count(S.nodes[c])))
             ELSE addr

\* The insertion of insert_at once the address is in a leaf: (storage after,
\* address of the item, panic).  It panics on nowhere in a tree that is not
\* empty, on an address in an empty tree, and on an offset the node cannot
\* insert at.
insert_at_leaf(S, la, item) ==
    IF \/ is_nowhere(la) # is_empty(S)
       \/ ~is_nowhere(la) /\ ~has_node(S, la.id)
       \/ ~is_nowhere(la) /\ has_node(S, la.id)
            /\ la.offset \notin 0..item_count(S.nodes[la.id])
    THEN [S |-> S, addr |-> la, panic |-> TRUE]
    ELSE [S |-> insert_exactly_at(S, la, item, NoId).S,
          addr |-> insert_exactly_at(S, la, item, NoId).addr,
          panic |-> FALSE]

\* insert_at putting the item in front of the tree, whatever the address.
insert_at_front(S, addr, item) == insert_at_leaf(S, first_back_address(S), item)

insert_at(S, addr, item) == insert_at_leaf(S, leaf_address(S, addr), item)

\* replace_at answering the payload it stores instead of the one it displaces.
replace_at_new(S, addr, item) ==
    LET old == S.nodes[addr.id].items[addr.offset + 1]
    IN  [S |-> set_node(S, addr.id,
                        node_replace(S.nodes[addr.id], addr.offset,
                                     Item(old.key, item.value))),
         ret |-> item.value]

\* replace_at counting the binding as a new item.
replace_at_counted(S, addr, item) ==
    LET old == S.nodes[addr.id].items[addr.offset + 1]
    IN  [S |-> incr_len(set_node(S, addr.id,
                                 node_replace(S.nodes[addr.id], addr.offset,
                                              Item(old.key, item.value)))),
         ret |-> old.value]

\* Replace of a map binding: the payload is replaced and returned, the key of
\* the stored binding stays.
replace_at(S, addr, item) ==
    LET old == S.nodes[addr.id].items[addr.offset + 1]
    IN  [S |-> set_node(S, addr.id,
                        node_replace(S.nodes[addr.id], addr.offset,
                                     Item(old.key, item.value))),
         ret |-> old.value]

\* (storage after, Option of the displaced payload)
insert(S, item) ==
    LET replaced(r) == [S |-> r.S, ret |-> Some(r.ret)]
        inserted(r) == [S |-> r.S, ret |-> None]
        at(a) == IF a.ok THEN replaced(replace_at(S, a.addr, item))
                 ELSE inserted(insert_exactly_at(S, a.addr, item, NoId))
    IN  at(address_of(S, item.key))

\* Some(Ok(item)) on a leaf, Some(Err(left child)) on an internal node, None
\* when the offset holds no item.
leaf_remove(n, offset) ==
    IF offset < item_count(n)
    THEN IF n.leaf
         THEN [some |-> TRUE, ok |-> TRUE, n |-> node_remove(n, offset).n,
               item |-> n.items[offset + 1], child |-> NoId]
         ELSE [some |-> TRUE, ok |-> FALSE, n |-> n, item |-> None,
               child |-> child_id(n, offset)]
    ELSE [some |-> FALSE, ok |-> FALSE, n |-> n, item |-> None, child |-> NoId]

RECURSIVE remove_rightmost_leaf_of(_, _)
remove_rightmost_leaf_of(S, id) ==
    LET n == S.nodes[id]
    IN  IF n.leaf
        THEN [S |-> set_node(S, id, node_remove(n, item_count(n) - 1).n),
              item |-> n.items[item_count(n)], id |-> id]
        ELSE remove_rightmost_leaf_of(S, child_id(n, child_count(n) - 1))

\* (storage after, Option of (item removed, address after))
remove_at(S, addr) ==
    LET S0 == decr_len(S)
        removed(item, r) == [S |-> r.S, ret |-> Some([item |-> item, addr |-> r.addr])]
        from_leaf(lr) ==
            removed(lr.item, rebalance(set_node(S0, addr.id, lr.n), addr.id, addr))
        swapped(new_addr, rm) ==
            removed(S0.nodes[addr.id].items[addr.offset + 1],
                    rebalance(set_node(rm.S, addr.id,
                                       node_replace(rm.S.nodes[addr.id], addr.offset,
                                                    rm.item)),
                              rm.id, new_addr))
        from_internal(lr) ==
            swapped(next_item_or_back_address(S0, addr)[1],
                    remove_rightmost_leaf_of(S0, lr.child))
        at(lr) == IF lr.some
                  THEN IF lr.ok THEN from_leaf(lr) ELSE from_internal(lr)
                  ELSE [S |-> S0, ret |-> None]
    IN  at(leaf_remove(S0.nodes[addr.id], addr.offset))

\* (storage after, Option of the item removed)
remove(S, key) ==
    LET removed(r) == [S |-> r.S, ret |-> Some(r.ret[1].item)]
        at(a) == IF a.ok THEN removed(remove_at(S, a.addr)) ELSE [S |-> S, ret |-> None]
    IN  at(address_of(S, key))

\* take decrementing len before it knows whether the key is stored.
take_len_first(S, key) ==
    LET taken(r) == [S |-> r.S, ret |-> Some(r.ret[1].item)]
        at(a) == IF a.ok THEN taken(remove_at(S, a.addr))
                 ELSE [S |-> decr_len(S), ret |-> None]
    IN  at(address_of(S, key))

take(S, key) ==
    LET taken(r) == [S |-> r.S, ret |-> Some(r.ret[1].item)]
        at(a) == IF a.ok THEN taken(remove_at(S, a.addr)) ELSE [S |-> S, ret |-> None]
    IN  at(address_of(S, key))

\* pop_first answering the first item without removing it.
pop_first_kept(S) ==
    LET at(a) == IF a # None THEN [S |-> S, ret |-> item_at(S, a[1])]
                 ELSE [S |-> S, ret |-> None]
    IN  at(first_item_address(S))

pop_first(S) ==
    LET popped(r) == [S |-> r.S, ret |-> Some(r.ret[1].item)]
        at(a) == IF a # None THEN popped(remove_at(S, a[1])) ELSE [S |-> S, ret |-> None]
    IN  at(first_item_address(S))

pop_last(S) ==
    LET popped(r) == [S |-> r.S, ret |-> Some(r.ret[1].item)]
        at(a) == IF a # None THEN popped(remove_at(S, a[1])) ELSE [S |-> S, ret |-> None]
    IN  at(last_item_address(S))

\* The update of a map: the action is given the Option of the current payload
\* and answers new_value, the Option of the payload to bind; the result of the
\* call is what the action was given.
RECURSIVE update_in(_, _, _, _)
update_in(S, id, key, new_value) ==
    LET occupied(offset) ==
            LET entry == S.nodes[id].items[offset + 1]
            IN  IF new_value # None
                THEN [S |-> set_node(S, id,
                                     node_replace(S.nodes[id], offset,
                                                  Item(entry.key, new_value[1]))),
                      ret |-> Some(entry.value)]
                ELSE [S |-> remove_at(S, Addr(id, offset)).S,
                      ret |-> Some(entry.value)]
        vacant(offset) ==
            IF new_value # None
            THEN [S |-> insert_exactly_at(S, Addr(id, offset),
                                          Item(key, new_value[1]), NoId).S,
                  ret |-> None]
            ELSE [S |-> S, ret |-> None]
        at(r) == IF r.ok THEN occupied(r.offset)
                 ELSE IF r.child = NoId THEN vacant(r.offset)
                 ELSE update_in(S, r.child, key, new_value)
    IN  at(offset_of(S.nodes[id], key))

\* update without the count of the item that becomes the root.
update_len_kept(S, key, new_value) ==
    LET as_root(ins) == [S |-> [ins.S EXCEPT !.root = ins.id], ret |-> None]
    IN  IF S.root # NoId THEN update_in(S, S.root, key, new_value)
        ELSE IF new_value # None
             THEN as_root(insert_node(S, LeafNode(NoId, <<Item(key, new_value[1])>>)))
             ELSE [S |-> S, ret |-> None]

update(S, key, new_value) ==
    LET as_root(ins) == [S |-> incr_len([ins.S EXCEPT !.root = ins.id]), ret |-> None]
    IN  IF S.root # NoId THEN update_in(S, S.root, key, new_value)
        ELSE IF new_value # None
             THEN as_root(insert_node(S, LeafNode(NoId, <<Item(key, new_value[1])>>)))
             ELSE [S |-> S, ret |-> None]

\* clear_node releasing the node and none of its children.
clear_node_alone(S, id) == release_node(S, id)

RECURSIVE clear_node(_, _)
RECURSIVE clear_children(_, _, _)
clear_children(S, children, i) ==
    IF i > Len(children) THEN S
    ELSE clear_children(clear_node(S, children[i]), children, i + 1)
clear_node(S, id) == clear_children(release_node(S, id), S.nodes[id].children, 1)

clear(S) ==
    [(IF S.root # NoId THEN clear_node(S, S.root) ELSE S) EXCEPT !.root = NoId, !.len = 0]

\* The items whose destructors run when a released node buffer goes out of
\* scope, and when it is forgotten instead.
buffer_drop(node) == node.items
buffer_forget(node) == <<>>

\* The destructors clear_node runs: its children's, then the buffer's own.
RECURSIVE clear_node_dropped(_, _)
RECURSIVE clear_children_dropped(_, _, _)
clear_children_dropped(S, children, i) ==
    IF i > Len(children) THEN <<>>
    ELSE clear_node_dropped(S, children[i]) \o clear_children_dropped(S, children, i + 1)
clear_node_dropped(S, id) ==
    clear_children_dropped(S, S.nodes[id].children, 1) \o buffer_drop(S.nodes[id])

clear_dropped(S) == IF S.root # NoId THEN clear_node_dropped(S, S.root) ELSE <<>>

RECURSIVE forget_node(_, _)
RECURSIVE forget_children(_, _, _)
forget_children(S, children, i) ==
    IF i > Len(children) THEN S
    ELSE forget_children(forget_node(S, children[i]), children, i + 1)
forget_node(S, id) == forget_children(release_node(S, id), S.nodes[id].children, 1)

forget_all(S) ==
    [(IF S.root # NoId THEN forget_node(S, S.root) ELSE S) EXCEPT !.root = NoId, !.len = 0]

RECURSIVE forget_node_dropped(_, _)
RECURSIVE forget_children_dropped(_, _, _)
forget_children_dropped(S, children, i) ==
    IF i > Len(children) THEN <<>>
    ELSE forget_node_dropped(S, children[i]) \o forget_children_dropped(S, children, i + 1)
forget_node_dropped(S, id) ==
    forget_children_dropped(S, S.nodes[id].children, 1) \o buffer_forget(S.nodes[id])

forget_dropped(S) == IF S.root # NoId THEN forget_node_dropped(S, S.root) ELSE <<>>

----------------------------------------------------------------------------
\* Walking the items: the addresses after and before an address.

\* The climb of next_item_address once a leaf position is reached.
RECURSIVE nia_up(_, _)
nia_up(S, addr) ==
    LET node == S.nodes[addr.id]
    IN  IF addr.offset < item_count(node) THEN Some(addr)
        ELSE IF node.parent # NoId
             THEN nia_up(S, Addr(node.parent, child_index(S.nodes[node.parent], addr.id)))
             ELSE None

RECURSIVE nia_down(_, _)
nia_down(S, addr) ==
    LET c == child_id(S.nodes[addr.id], addr.offset)
    IN  IF c # NoId THEN nia_down(S, Addr(c, 0)) ELSE nia_up(S, addr)

next_item_address(S, addr) ==
    IF is_nowhere(addr) THEN None
    ELSE LET count == item_count(S.nodes[addr.id])
         IN  IF addr.offset > count THEN None
             ELSE nia_down(S, IF addr.offset < count
                              THEN Addr(addr.id, offset_incr(addr.offset))
                              ELSE addr)

\* The climb of previous_item_address once a leaf position is reached.
RECURSIVE pia_up(_, _)
pia_up(S, addr) ==
    IF addr.offset > 0 THEN Some(Addr(addr.id, offset_decr(addr.offset)))
    ELSE LET parent == S.nodes[addr.id].parent
         IN  IF parent # NoId
             THEN pia_up(S, Addr(parent, child_index(S.nodes[parent], addr.id)))
             ELSE None

RECURSIVE pia_down(_, _)
pia_down(S, addr) ==
    LET c == child_id(S.nodes[addr.id], addr.offset)
    IN  IF c # NoId THEN pia_down(S, Addr(c, item_count(S.nodes[c])))
        ELSE pia_up(S, addr)

\* previous_item_address without the descent into the child on the left.
previous_item_address_flat(S, addr) ==
    IF is_nowhere(addr) THEN None ELSE pia_up(S, addr)

previous_item_address(S, addr) ==
    IF is_nowhere(addr) THEN None ELSE pia_down(S, addr)

----------------------------------------------------------------------------
\* The borrowing iterator: the address of the next item, the address of the
\* end and the number of items left.  panic tells an unwrap of None.

iter_new(S) == [addr |-> first_item_address(S), end |-> None, len |-> S.len]

iter_next(S, it) ==
    IF it.addr # None /\ it.len # 0
    THEN [it |-> [it EXCEPT !.len = it.len - 1,
                            !.addr = next_item_address(S, it.addr[1])],
          ret |-> item_at(S, it.addr[1]),
          panic |-> item_at(S, it.addr[1]) = None]
    ELSE [it |-> it, ret |-> None, panic |-> FALSE]

iter_next_back(S, it) ==
    IF it.len # 0
    THEN LET addr == IF it.end # None THEN previous_item_address(S, it.end[1])
                     ELSE last_item_address(S)
         IN  IF addr = None \/ item_at(S, addr[1]) = None
             THEN [it |-> it, ret |-> None, panic |-> TRUE]
             ELSE [it |-> [it EXCEPT !.len = it.len - 1, !.end = addr],
                   ret |-> item_at(S, addr[1]), panic |-> FALSE]
    ELSE [it |-> it, ret |-> None, panic |-> FALSE]

\* The items next answers until it answers None.
RECURSIVE iter_collect(_, _, _)
iter_collect(S, it, out) ==
    LET step(r) == IF r.ret = None THEN [items |-> out, panic |-> r.panic]
                   ELSE iter_collect(S, r.it, Append(out, r.ret[1]))
    IN  step(iter_next(S, it))

iter_run(S) == iter_collect(S, iter_new(S), <<>>)

\* Comparison of two trees.  An ordering is "Less", "Equal" or "Greater".
\* item_partial_cmp compares the key, then the value; item_cmp the key only.
int_cmp(a, b) == IF a < b THEN "Less" ELSE IF a > b THEN "Greater" ELSE "Equal"

item_partial_cmp(binding, other) ==
    IF int_cmp(binding.key, other.key) = "Equal"
    THEN Some(int_cmp(binding.value, other.value))
    ELSE Some(int_cmp(binding.key, other.key))

item_cmp(binding, other) == int_cmp(binding.key, other.key)

\* The loops of eq, partial_cmp and cmp over the items the two iterators
\* answer, from the i-th on.
RECURSIVE eq_from(_, _, _)
eq_from(its1, its2, i) ==
    IF i > Len(its1) /\ i > Len(its2) THEN TRUE
    ELSE IF i > Len(its1) \/ i > Len(its2) THEN FALSE
    ELSE IF item_partial_cmp(its2[i], its1[i]) # Some("Equal") THEN FALSE
    ELSE eq_from(its1, its2, i + 1)

RECURSIVE partial_cmp_from(_, _, _)
partial_cmp_from(its1, its2, i) ==
    IF i > Len(its1) /\ i > Len(its2) THEN Some("Equal")
    ELSE IF i > Len(its2) THEN Some("Greater")
    ELSE IF i > Len(its1) THEN Some("Less")
    ELSE LET c == item_partial_cmp(its2[i], its1[i])
         IN  IF c = None THEN None
             ELSE IF c = Some("Greater") THEN Some("Less")
             ELSE IF c = Some("Less") THEN Some("Greater")
             ELSE partial_cmp_from(its1, its2, i + 1)

RECURSIVE cmp_from(_, _, _)
cmp_from(its1, its2, i) ==
    IF i > Len(its1) /\ i > Len(its2) THEN "Equal"
    ELSE IF i > Len(its2) THEN "Greater"
    ELSE IF i > Len(its1) THEN "Less"
    ELSE LET c == item_cmp(its2[i], its1[i])
         IN  IF c = "Greater" THEN "Less"
             ELSE IF c = "Less" THEN "Greater"
             ELSE cmp_from(its1, its2, i + 1)

storage_eq(S1, S2) ==
    IF S1.len = S2.len THEN eq_from(iter_run(S1).items, iter_run(S2).items, 1) ELSE FALSE

storage_partial_cmp(S1, S2) ==
    partial_cmp_from(iter_run(S1).items, iter_run(S2).items, 1)

storage_cmp(S1, S2) == cmp_from(iter_run(S1).items, iter_run(S2).items, 1)

----------------------------------------------------------------------------
\* Back and front addresses, as the consuming iterator walks them.  The
\* answer is (Option of an address, panic); panic tells an unwrap of None: a
\* node that is not in the storage, or a child its parent does not list.

Walked(opt_addr) == [addr |-> opt_addr, panic |-> FALSE]
WalkPanic == [addr |-> None, panic |-> TRUE]

\* The step of next_back_address and previous_front_address to the parent.
to_parent(S, id, back) ==
    LET parent_id == S.nodes[id].parent
        up(index) == IF index = -1 THEN WalkPanic
                     ELSE Walked(Some(Addr(parent_id,
                                           IF back THEN index ELSE offset_decr(index))))
    IN  IF parent_id = NoId THEN Walked(None)
        ELSE IF ~has_node(S, parent_id) THEN WalkPanic
        ELSE up(child_index(S.nodes[parent_id], id))

RECURSIVE next_back_address(_, _)
next_back_address(S, addr) ==
    IF is_nowhere(addr) THEN Walked(None)
    ELSE IF ~has_node(S, addr.id) THEN WalkPanic
    ELSE LET node == S.nodes[addr.id]
             index == IF addr.offset = -1 THEN 0 ELSE addr.offset + 1
             c == child_id(node, index)
         IN  IF index <= item_count(node)
             THEN IF c # NoId THEN next_back_address(S, Addr(c, -1))
                  ELSE Walked(Some(Addr(addr.id, index)))
             ELSE to_parent(S, addr.id, TRUE)

RECURSIVE previous_front_address(_, _)
previous_front_address(S, addr) ==
    IF is_nowhere(addr) THEN Walked(None)
    ELSE IF ~has_node(S, addr.id) THEN WalkPanic
    ELSE LET node == S.nodes[addr.id]
             index == IF addr.offset < item_count(node) THEN addr.offset
                      ELSE item_count(node)
             c == child_id(node, index)
         IN  IF addr.offset # -1
             THEN IF c # NoId
                  THEN IF has_node(S, c)
                       THEN previous_front_address(S, Addr(c, item_count(S.nodes[c])))
                       ELSE WalkPanic
                  ELSE Walked(Some(Addr(addr.id, offset_decr(addr.offset))))
             ELSE to_parent(S, addr.id, FALSE)

----------------------------------------------------------------------------
\* The consuming iterator.  It owns the storage S; front and back are the
\* items it has yielded from each side, panic tells an unwrap of None (an
\* address with no item, a node that is not in the storage, the release of a
\* node already released), early tells the release of a node one of whose
\* items has not been yielded.

into_iter_new(S) ==
    [S |-> S, addr |-> first_item_address(S), end |-> None, len |-> S.len,
     front |-> <<>>, back |-> <<>>, panic |-> FALSE, early |-> FALSE]

IntoPanic(it) == [it EXCEPT !.panic = TRUE]

into_yielded(it) ==
    {it.front[i] : i \in DOMAIN it.front} \cup {it.back[i] : i \in DOMAIN it.back}

into_release(it, id) ==
    IF it.panic THEN it
    ELSE IF ~has_node(it.S, id) THEN IntoPanic(it)
    ELSE LET items == it.S.nodes[id].items
         IN  [it EXCEPT !.S = release_node(it.S, id),
                        !.early = it.early
                                  \/ \E i \in DOMAIN items : items[i] \notin into_yielded(it)]

\* next: the walk from the address after the yielded item to the next item
\* address, which releases every node it leaves.
RECURSIVE into_skip(_)
into_skip(it) ==
    IF it.panic \/ it.addr = None THEN it
    ELSE LET addr == it.addr[1]
             w == next_back_address(it.S, addr)
         IN  IF ~has_node(it.S, addr.id) THEN IntoPanic(it)
             ELSE IF addr.offset < item_count(it.S.nodes[addr.id]) THEN it
             ELSE IF w.panic THEN IntoPanic(it)
             ELSE into_skip(into_release([it EXCEPT !.addr = w.addr], addr.id))

\* Cleanup, first loop: from addr to end, releasing the nodes it leaves.
RECURSIVE into_walk_to_end(_)
into_walk_to_end(it) ==
    IF it.panic \/ it.addr = it.end THEN it
    ELSE IF it.addr = None THEN IntoPanic(it)
    ELSE LET addr == it.addr[1]
             w == next_back_address(it.S, addr)
             it1 == [it EXCEPT !.addr = w.addr]
         IN  IF w.panic THEN IntoPanic(it)
             ELSE IF addr.offset >= item_count(it.S.nodes[addr.id])
                  THEN into_walk_to_end(into_release(it1, addr.id))
                  ELSE into_walk_to_end(it1)

\* Cleanup, second loop: the node of addr and its ancestors.
RECURSIVE into_release_up(_, _)
into_release_up(it, id) ==
    IF it.panic \/ id = NoId THEN it
    ELSE IF ~has_node(it.S, id) THEN IntoPanic(it)
    ELSE into_release_up(into_release(it, id), it.S.nodes[id].parent)

\* A cleanup without its first loop, which leaves the nodes between the two
\* cursors in the storage.
into_cleanup_no_walk(it) ==
    IF it.panic \/ it.addr = None THEN it
    ELSE into_release_up(it, it.addr[1].id)

into_cleanup(it) ==
    LET it1 == IF it.end # None THEN into_walk_to_end(it) ELSE it
    IN  IF it1.panic \/ it1.addr = None THEN it1
        ELSE into_release_up(it1, it1.addr[1].id)

into_iter_next(it) ==
    IF it.panic \/ it.addr = None \/ it.len = 0 THEN it
    ELSE LET addr == it.addr[1]
             item == item_at(it.S, addr)
             it1 == [it EXCEPT !.len = it.len - 1,
                               !.front = Append(it.front, item[1])]
             w == next_back_address(it.S, addr)
         IN  IF item = None THEN IntoPanic(it)
             ELSE IF it1.len # 0
                  THEN IF w.panic THEN IntoPanic(it1)
                       ELSE into_skip([it1 EXCEPT !.addr = w.addr])
                  ELSE into_cleanup(it1)

\* next_back: the walk from the address before end to the previous item
\* address, which releases every node it leaves.  The answer is (it, Option
\* of the address found).
RECURSIVE into_back_skip(_, _)
into_back_skip(it, w) ==
    IF it.panic \/ w.panic \/ w.addr = None THEN [it |-> IntoPanic(it), addr |-> None]
    ELSE IF w.addr[1].offset # -1 THEN [it |-> it, addr |-> w.addr]
    ELSE into_back_skip(into_release(it, w.addr[1].id),
                        previous_front_address(it.S, w.addr[1]))

into_iter_next_back(it) ==
    IF it.panic \/ it.len = 0 THEN it
    ELSE LET found == IF it.end # None
                      THEN into_back_skip(it, previous_front_address(it.S, it.end[1]))
                      ELSE [it |-> it, addr |-> last_item_address(it.S)]
             item == item_at(found.it.S, found.addr[1])
             it1 == [found.it EXCEPT !.len = it.len - 1,
                                     !.back = Append(found.it.back, item[1]),
                                     !.end = found.addr]
         IN  IF found.it.panic \/ found.addr = None THEN IntoPanic(found.it)
             ELSE IF item = None THEN IntoPanic(found.it)
             ELSE IF it1.len = 0 THEN into_cleanup(it1)
             ELSE it1

\* The end of an IntoIter that is let go: it has no destructor of its own, so
\* its storage is dropped with the nodes it still holds, and each of them
\* drops every item of its buffer.  The items yielded went to the caller,
\* who drops each of them.
RECURSIVE Count(_, _)
Count(items, item) ==
    IF items = <<>> THEN 0
    ELSE (IF Head(items) = item THEN 1 ELSE 0) + Count(Tail(items), item)

RECURSIVE storage_dropped(_, _)
storage_dropped(S, ids) ==
    IF ids = {} THEN <<>>
    ELSE LET id == CHOOSE x \in ids : \A y \in ids : x <= y
         IN  buffer_drop(S.nodes[id]) \o storage_dropped(S, ids \ {id})

into_iter_dropped(it) ==
    it.front \o it.back \o storage_dropped(it.S, DOMAIN it.S.nodes)

\* A caller: the first `first` polls from one side, then the sides in turn,
\* `period` polls each, until no item remains.
Schedule(from_front, first, period) ==
    [from_front |-> from_front, first |-> first, period |-> period]

poll_front(sched, i) ==
    IF i <= sched.first THEN sched.from_front
    ELSE (((i - sched.first - 1) \div sched.period) % 2 = 0) # sched.from_front

RECURSIVE into_iter_run(_, _, _)
into_iter_run(it, sched, i) ==
    LET polled == IF poll_front(sched, i) THEN into_iter_next(it)
                  ELSE into_iter_next_back(it)
    IN  IF it.panic \/ it.len = 0 THEN it
        ELSE IF ~polled.panic /\ polled.len = it.len THEN it
        ELSE into_iter_run(polled, sched, i + 1)

----------------------------------------------------------------------------
\* The mutable iterator.  ret is the address of the item whose mutable
\* reference is emitted, or None.

iter_mut_new(S) == [addr |-> first_item_address(S), end |-> None, len |-> S.len]

item_mut(S, addr) == IF item_at(S, addr) # None THEN Some(addr) ELSE None

iter_mut_next(S, it) ==
    IF it.addr # None /\ it.len # 0
    THEN [it |-> [it EXCEPT !.len = it.len - 1,
                            !.addr = next_item_address(S, it.addr[1])],
          ret |-> item_mut(S, it.addr[1]),
          panic |-> FALSE]
    ELSE [it |-> it, ret |-> None, panic |-> FALSE]

\* next_back leaves end as it is.
iter_mut_next_back(S, it) ==
    IF it.len # 0
    THEN LET addr == IF it.end # None THEN previous_item_address(S, it.end[1])
                     ELSE last_item_address(S)
         IN  IF addr = None THEN [it |-> it, ret |-> None, panic |-> TRUE]
             ELSE [it |-> [it EXCEPT !.len = it.len - 1],
                   ret |-> item_mut(S, addr[1]), panic |-> FALSE]
    ELSE [it |-> it, ret |-> None, panic |-> FALSE]

\* The references emitted to a caller who polls as sched tells, until the
\* polled side answers None.
RECURSIVE iter_mut_run(_, _, _, _, _)
iter_mut_run(S, it, sched, i, out) ==
    LET r == IF poll_front(sched, i) THEN iter_mut_next(S, it)
             ELSE iter_mut_next_back(S, it)
    IN  IF r.panic \/ r.ret = None
        THEN [emitted |-> out, panic |-> r.panic, it |-> r.it]
        ELSE iter_mut_run(S, r.it, sched, i + 1, Append(out, r.ret[1]))

----------------------------------------------------------------------------
\* append: self takes every item of other, which is left empty.

Default == Storage(<<>>, <<>>, NoId, 0)

RECURSIVE insert_all(_, _, _)
insert_all(S, items, i) ==
    IF i > Len(items) THEN S
    ELSE insert_all(insert(S, items[i]).S, items, i + 1)

\* append reading other without taking it.
append_no_take(self, other) ==
    LET drained(it) == [self |-> insert_all(self, it.front, 1), other |-> other,
                        panic |-> it.panic]
    IN  IF is_empty(other) THEN [self |-> self, other |-> other, panic |-> FALSE]
        ELSE IF is_empty(self) THEN [self |-> other, other |-> self, panic |-> FALSE]
        ELSE drained(into_iter_run(into_iter_new(other),
                                   Schedule(TRUE, other.len, 1), 1))

append(self, other) ==
    LET drained(it) == [self |-> insert_all(self, it.front, 1), other |-> Default,
                        panic |-> it.panic]
    IN  IF is_empty(other) THEN [self |-> self, other |-> other, panic |-> FALSE]
        ELSE IF is_empty(self) THEN [self |-> other, other |-> self, panic |-> FALSE]
        ELSE drained(into_iter_run(into_iter_new(other),
                                   Schedule(TRUE, other.len, 1), 1))

----------------------------------------------------------------------------
\* The iterator that can change the tree in place: the address of the next
\* item and the number of items left.
entries_mut_new(S) == [addr |-> first_back_address(S), len |-> S.len]

entries_mut_peek(S, c) == item_at(S, c.addr)

entries_mut_next_item(S, c) ==
    LET after_addr == next_item_or_back_address(S, c.addr)
    IN  IF item_at(S, c.addr) # None
        THEN [c |-> [addr |-> after_addr[1], len |-> c.len - 1],
              ret |-> item_at(S, c.addr)]
        ELSE [c |-> c, ret |-> None]

\* The address after the inserted item is computed and dropped.
entries_mut_insert(S, c, item) ==
    LET r == insert_at(S, c.addr, item)
    IN  [S |-> r.S, c |-> [c EXCEPT !.len = @ + 1], panic |-> r.panic]

entries_mut_remove(S, c) ==
    LET r == remove_at(S, c.addr)
    IN  IF r.ret # None
        THEN [S |-> r.S, c |-> [addr |-> r.ret[1].addr, len |-> c.len - 1],
              ret |-> Some(r.ret[1].item)]
        ELSE [S |-> r.S, c |-> c, ret |-> None]

\* Validation.  The answer is Ok or the first error of the walk, with the
\* node it names (NotBalanced names none).
Ok == [kind |-> "Ok", id |-> NoId]
ValidationError(kind, id) == [kind |-> kind, id |-> id]

separators(n, i) ==
    [min |-> IF ~n.leaf /\ i > 0 /\ i <= item_count(n) THEN Some(n.items[i]) ELSE None,
     max |-> IF ~n.leaf /\ i < item_count(n) THEN Some(n.items[i + 1]) ELSE None]

\* node_validate checking the balance of the root as well.
node_validate_root_too(n, id, parent, min, max) ==
    IF n.parent # parent THEN ValidationError("WrongParent", id)
    ELSE IF is_overflowing(n) THEN ValidationError("Overflow", id)
    ELSE IF is_underflowing(n) THEN ValidationError("Underflow", id)
    ELSE Ok

node_validate(n, id, parent, min, max) ==
    IF n.parent # parent THEN ValidationError("WrongParent", id)
    ELSE IF (min # None \/ max # None) /\ is_overflowing(n)
         THEN ValidationError("Overflow", id)
    ELSE IF (min # None \/ max # None) /\ is_underflowing(n)
         THEN ValidationError("Underflow", id)
    ELSE IF \E i \in 2..item_count(n) : n.items[i].key < n.items[i - 1].key
         THEN ValidationError("UnsortedNode", id)
    ELSE IF min # None /\ item_count(n) > 0 /\ min[1].key >= n.items[1].key
         THEN ValidationError("UnsortedFromLeft", id)
    ELSE IF max # None /\ item_count(n) > 0 /\ max[1].key <= n.items[item_count(n)].key
         THEN ValidationError("UnsortedFromRight", id)
    ELSE Ok

\* The answer of validate_node is the error, or Ok with the depth of the node.
RECURSIVE validate_node(_, _, _, _, _)
RECURSIVE validate_children(_, _, _, _, _, _)
validate_children(S, id, i, min, max, depth) ==
    LET node == S.nodes[id]
        sep == separators(node, i)
        child_min == IF sep.min # None THEN sep.min ELSE min
        child_max == IF sep.max # None THEN sep.max ELSE max
        after(r) ==
            IF r.err # Ok THEN r
            ELSE IF depth # NoId /\ depth # r.depth
                 THEN [err |-> ValidationError("NotBalanced", NoId), depth |-> 0]
            ELSE validate_children(S, id, i + 1,
                                   IF sep.min # None THEN min ELSE None,
                                   IF sep.max # None THEN max ELSE None,
                                   r.depth)
    IN  IF i >= child_count(node)
        THEN [err |-> Ok, depth |-> IF depth # NoId THEN depth + 1 ELSE 0]
        ELSE after(validate_node(S, child_id(node, i), id, child_min, child_max))

validate_node(S, id, parent, min, max) ==
    IF id \notin DOMAIN S.nodes
    THEN [err |-> ValidationError("MissingNode", id), depth |-> 0]
    ELSE LET r == node_validate(S.nodes[id], id, parent, min, max)
         IN  IF r # Ok THEN [err |-> r, depth |-> 0]
             ELSE validate_children(S, id, 0, min, max, NoId)

validate(S) ==
    IF S.root # NoId THEN validate_node(S, S.root, NoId, None, None).err ELSE Ok

\* Range iteration.  A bound is Included(k), Excluded(k) or Unbounded.

Included(k) == [kind |-> "Included", key |-> k]
Excluded(k) == [kind |-> "Excluded", key |-> k]
Unbounded == [kind |-> "Unbounded", key |-> 0]

\* is_valid_range accepting two Excluded bounds of the same key.
is_valid_range_lax(start, end) ==
    IF start.kind = "Unbounded" \/ end.kind = "Unbounded" THEN TRUE
    ELSE start.key <= end.key

is_valid_range(start, end) ==
    IF start.kind = "Unbounded" \/ end.kind = "Unbounded" THEN TRUE
    ELSE IF start.kind = "Excluded" /\ end.kind = "Excluded" THEN start.key < end.key
    ELSE start.key <= end.key

\* The address Range::new starts at; None tells an unwrap of None.
range_start(S, start) ==
    LET at(r) == IF start.kind = "Excluded" /\ r.ok
                 THEN next_item_or_back_address(S, r.addr)
                 ELSE Some(r.addr)
    IN  IF start.kind = "Unbounded" THEN Some(first_back_address(S))
        ELSE at(address_of(S, start.key))

\* The address Range::new ends at.
range_end(S, end) ==
    LET at(r) == IF end.kind = "Included" /\ r.ok
                 THEN next_item_or_back_address(S, r.addr)
                 ELSE Some(r.addr)
    IN  IF end.kind = "Unbounded" THEN Some(first_back_address(S))
        ELSE at(address_of(S, end.key))

range_new(S, start, end) ==
    LET made(a, e) ==
            IF a = None \/ e = None
            THEN [addr |-> Nowhere, end |-> Nowhere, panic |-> TRUE]
            ELSE [addr |-> a[1], end |-> e[1], panic |-> FALSE]
    IN  IF ~is_valid_range(start, end)
        THEN [addr |-> Nowhere, end |-> Nowhere, panic |-> TRUE]
        ELSE made(range_start(S, start), range_end(S, end))

range_mut_new(S, start, end) ==
    LET made(a, e) ==
            IF a = None \/ e = None
            THEN [addr |-> Nowhere, end |-> Nowhere, panic |-> TRUE]
            ELSE [addr |-> a[1], end |-> e[1], panic |-> FALSE]
    IN  IF ~is_valid_range(start, end)
        THEN [addr |-> Nowhere, end |-> Nowhere, panic |-> TRUE]
        ELSE made(range_start(S, start), range_end(S, end))

range_next(S, rg) ==
    LET stepped(item, next) ==
            IF item = None \/ next = None
            THEN [rg |-> rg, ret |-> None, panic |-> TRUE]
            ELSE [rg |-> [rg EXCEPT !.addr = next[1]], ret |-> item, panic |-> FALSE]
    IN  IF rg.addr # rg.end
        THEN stepped(item_at(S, rg.addr), next_item_or_back_address(S, rg.addr))
        ELSE [rg |-> rg, ret |-> None, panic |-> FALSE]

\* next_back steps back from the address of the next item, and keeps the
\* address it reaches as the end.
range_next_back(S, rg) ==
    LET stepped(addr) ==
            IF addr = None THEN [rg |-> rg, ret |-> None, panic |-> TRUE]
            ELSE IF item_at(S, addr[1]) = None THEN [rg |-> rg, ret |-> None, panic |-> TRUE]
            ELSE [rg |-> [rg EXCEPT !.end = addr[1]], ret |-> item_at(S, addr[1]),
                  panic |-> FALSE]
    IN  IF rg.addr # rg.end THEN stepped(previous_item_address(S, rg.addr))
        ELSE [rg |-> rg, ret |-> None, panic |-> FALSE]

range_mut_next(S, rg) ==
    LET stepped(next) ==
            IF next = None \/ item_mut(S, rg.addr) = None
            THEN [rg |-> rg, ret |-> None, panic |-> TRUE]
            ELSE [rg |-> [rg EXCEPT !.addr = next[1]], ret |-> item_at(S, rg.addr),
                  panic |-> FALSE]
    IN  IF rg.addr # rg.end THEN stepped(next_item_or_back_address(S, rg.addr))
        ELSE [rg |-> rg, ret |-> None, panic |-> FALSE]

\* next_back of the mutable range leaves both addresses as they are.
range_mut_next_back(S, rg) ==
    LET stepped(addr) ==
            IF addr = None THEN [rg |-> rg, ret |-> None, panic |-> TRUE]
            ELSE IF item_mut(S, addr[1]) = None THEN [rg |-> rg, ret |-> None, panic |-> TRUE]
            ELSE [rg |-> rg, ret |-> item_at(S, addr[1]), panic |-> FALSE]
    IN  IF rg.addr # rg.end THEN stepped(previous_item_address(S, rg.addr))
        ELSE [rg |-> rg, ret |-> None, panic |-> FALSE]

\* The items next answers until it answers None or panics.
RECURSIVE range_collect(_, _, _)
range_collect(S, rg, out) ==
    LET step(r) == IF r.ret = None THEN [items |-> out, panic |-> r.panic]
                   ELSE range_collect(S, r.rg, Append(out, r.ret[1]))
    IN  step(range_next(S, rg))

range_run(S, start, end) ==
    LET from(rg) == IF rg.panic THEN [items |-> <<>>, panic |-> TRUE]
                    ELSE range_collect(S, rg, <<>>)
    IN  from(range_new(S, start, end))

----------------------------------------------------------------------------
\* The iterators of the map: each wraps an iterator of the tree (inner) and
\* turns the items it answers into pairs, keys or values.
MapIterators == {"Iter", "Keys", "Values", "ValuesMut", "IterMut", "Range", "RangeMut"}

map_iter_new(S, kind, start, end) ==
    CASE kind \in {"Iter", "Keys", "Values"} -> iter_new(S)
      [] kind \in {"ValuesMut", "IterMut"} -> iter_mut_new(S)
      [] kind = "Range" -> range_new(S, start, end)
      [] kind = "RangeMut" -> range_mut_new(S, start, end)

map_inner_next(S, it, kind) ==
    LET of(r, inner, ret) == [it |-> inner, ret |-> ret, panic |-> r.panic]
        iter(r) == of(r, r.it, r.ret)
        iter_mut(r) == of(r, r.it, IF r.ret = None THEN None ELSE item_at(S, r.ret[1]))
        range(r) == of(r, r.rg, r.ret)
    IN  CASE kind \in {"Iter", "Keys", "Values"} -> iter(iter_next(S, it))
          [] kind \in {"ValuesMut", "IterMut"} -> iter_mut(iter_mut_next(S, it))
          [] kind = "Range" -> range(range_next(S, it))
          [] kind = "RangeMut" -> range(range_mut_next(S, it))

split_ref(item) == <<item.key, item.value>>

map_item(kind, item) ==
    CASE kind \in {"Iter", "IterMut", "Range", "RangeMut"} -> split_ref(item)
      [] kind = "Keys" -> split_ref(item)[1]
      [] kind \in {"Values", "ValuesMut"} -> split_ref(item)[2]

map_iter_next(S, it, kind) ==
    LET r == map_inner_next(S, it, kind)
    IN  [r EXCEPT !.ret = IF r.ret = None THEN None ELSE Some(map_item(kind, r.ret[1]))]

\* next_back is written with the next of the inner iterator.
map_iter_next_back(S, it, kind) ==
    LET r == map_inner_next(S, it, kind)
    IN  [r EXCEPT !.ret = IF r.ret = None THEN None ELSE Some(map_item(kind, r.ret[1]))]

\* drain_filter and retain.  A predicate is the set of the keys it answers
\* true for.  The iterator holds the address of the next item and a count;
\* seen lists the items the predicate was applied to.

drain_new(S) == [addr |-> first_back_address(S), len |-> S.len, seen |-> <<>>]

\* DrainFilterInner::next: (storage, iterator, Option of the item drained).
RECURSIVE drain_next(_, _, _)
drain_next(S, d, pred) ==
    LET taken(item, r) ==
            IF r.ret = None
            THEN [S |-> r.S, d |-> d, ret |-> None, panic |-> TRUE]
            ELSE [S |-> r.S,
                  d |-> [addr |-> r.ret[1].addr, len |-> d.len - 1,
                         seen |-> Append(d.seen, item)],
                  ret |-> Some(r.ret[1].item), panic |-> FALSE]
        kept(item, next) ==
            IF next = None
            THEN [S |-> S, d |-> d, ret |-> None, panic |-> TRUE]
            ELSE drain_next(S, [addr |-> next[1], len |-> d.len - 1,
                                seen |-> Append(d.seen, item)], pred)
        on(item) ==
            IF item = None THEN [S |-> S, d |-> d, ret |-> None, panic |-> FALSE]
            ELSE IF item[1].key \in pred THEN taken(item[1], remove_at(S, d.addr))
            ELSE kept(item[1], next_item_or_back_address(S, d.addr))
    IN  on(item_at(S, d.addr))

\* Up to polls calls of next (fewer if next answers None), then the drop of
\* the iterator, which calls next until it answers None.
RECURSIVE drain_loop(_, _, _, _, _)
drain_loop(S, d, pred, polls, out) ==
    LET step(r) ==
            IF r.ret = None
            THEN [S |-> r.S, seen |-> r.d.seen, yielded |-> out, panic |-> r.panic]
            ELSE drain_loop(r.S, r.d, pred, IF polls > 0 THEN polls - 1 ELSE 0,
                            IF polls > 0 THEN Append(out, r.ret[1]) ELSE out)
    IN  step(drain_next(S, d, pred))

drain_filter(S, pred, polls) == drain_loop(S, drain_new(S), pred, polls, <<>>)

\* retain(f): drain_filter with the negated predicate, dropped unpolled.
retain(S, f, all_keys) == drain_filter(S, all_keys \ f, 0)

----------------------------------------------------------------------------
\* The state machine: one action per operation of the map.  amap is the
\* abstract map the operations are meant to implement: a function from the
\* bound keys to their payloads.
\*
\* The runs explored are of two families, told apart by phase.  In the first
\* ("free") every operation is taken with any key of Keys, which covers every
\* tree of at most MaxKey items, one or two levels deep.  In the second, Build
\* inserts the keys 1..DeepLen in ascending order ("build"), which grows a
\* tree of three levels, and then ("deep") insert, remove and the pops are
\* taken with the keys of DeepKeys, and the other operations with the key in
\* the root, which drives the splits, rotations and merges of internal nodes
\* and the collapse of the root.

Cur == Storage(nodes, free, root, len)

Commit(S) ==
    /\ nodes' = S.nodes
    /\ free' = S.free
    /\ root' = S.root
    /\ len' = S.len

\* Number of items stored in the arena.
StoredCount(S) ==
    Cardinality({p \in {<<id, i>> : id \in DOMAIN S.nodes, i \in 1..(M + 1)} :
                    p[2] <= item_count(S.nodes[p[1]])})

Bind(m, k, v) == [x \in (DOMAIN m) \cup {k} |-> IF x = k THEN v ELSE m[x]]
Unbind(m, k) == [x \in (DOMAIN m) \ {k} |-> m[x]]
UnbindItem(m, opt_item) == IF opt_item = None THEN m ELSE Unbind(m, opt_item[1].key)

\* The keys the operations are taken with.
OpKeys == IF phase = "deep" THEN DeepKeys ELSE Keys
\* The keys take, update, insert_exactly_at and remove_at are taken with: in
\* the tree of three levels, the key the build leaves in the root.
SideKeys == IF phase = "deep" THEN {20} ELSE Keys
Operating == phase # "build"
AfterOp == IF phase = "deep" THEN "deep" ELSE "free"

Init ==
    /\ nodes = <<>>
    /\ free = <<>>
    /\ root = NoId
    /\ len = 0
    /\ amap = <<>>
    /\ phase = "new"

\* The effect of an operation that left the storage S.
Effect(S) ==
    /\ Commit(S)
    /\ phase' = AfterOp

Insert(k, v) ==
    /\ Operating
    /\ Effect(insert(Cur, Item(k, v)).S)
    /\ amap' = Bind(amap, k, v)

Remove(k) ==
    /\ Operating
    /\ Effect(remove(Cur, k).S)
    /\ amap' = Unbind(amap, k)

Take(k) ==
    /\ Operating
    /\ Effect(take(Cur, k).S)
    /\ amap' = Unbind(amap, k)

Update(k, new_value) ==
    /\ Operating
    /\ Effect(update(Cur, k, new_value).S)
    /\ amap' = IF new_value = None THEN Unbind(amap, k)
               ELSE Bind(amap, k, new_value[1])

\* The effect of a pop that answered r.
Popped(r) ==
    /\ r.ret # None => r.ret[1].key \in OpKeys
    /\ Effect(r.S)
    /\ amap' = UnbindItem(amap, r.ret)

PopFirst == Operating /\ Popped(pop_first(Cur))

PopLast == Operating /\ Popped(pop_last(Cur))

Clear ==
    /\ phase \in {"new", "free"}
    /\ Commit(clear(Cur))
    /\ amap' = <<>>
    /\ phase' = "free"

\* insert_exactly_at at the address address_of gives for a key not stored.
InsertExactlyAt(k, v) ==
    LET at(a) == /\ ~a.ok
                 /\ Effect(insert_exactly_at(Cur, a.addr, Item(k, v), NoId).S)
    IN  /\ Operating
        /\ at(address_of(Cur, k))
        /\ amap' = Bind(amap, k, v)

\* The addresses of the stored items with a key of SideKeys.
ItemAddrs ==
    {a \in {Addr(id, o) : id \in DOMAIN nodes, o \in 0..M} :
        /\ a.offset < item_count(nodes[a.id])
        /\ nodes[a.id].items[a.offset + 1].key \in SideKeys}

\* The addresses past the last item of a node.
EndAddrs == {Addr(id, item_count(nodes[id])) : id \in DOMAIN nodes}

RemoveAt(addr) ==
    LET removed(r) ==
            /\ Effect(r.S)
            /\ amap' = IF r.ret = None THEN amap ELSE Unbind(amap, r.ret[1].item.key)
    IN  Operating /\ removed(remove_at(Cur, addr))

\* The insertion of the next key of the ascending build.
Build ==
    /\ phase \in {"new", "build"}
    /\ len < DeepLen
    /\ Commit(insert(Cur, Item(len + 1, 1)).S)
    /\ amap' = Bind(amap, len + 1, 1)
    /\ phase' = IF len + 1 = DeepLen THEN "deep" ELSE "build"

Ops ==
    \/ \E k \in OpKeys : \E v \in Vals(k) : Insert(k, v)
    \/ \E k \in OpKeys : Remove(k)
    \/ \E k \in SideKeys : Take(k)
    \/ \E k \in SideKeys : \E nv \in {None} \cup {Some(v) : v \in Vals(k)} : Update(k, nv)
    \/ PopFirst
    \/ PopLast
    \/ Clear
    \/ \E k \in SideKeys : \E v \in Vals(k) : InsertExactlyAt(k, v)
    \/ \E addr \in ItemAddrs : RemoveAt(addr)

Next == Ops \/ Build

Spec == Init /\ [][Next]_vars

\* The runs of the free family with remove_at also taken at the addresses
\* past the items of a node, while len is less than MaxDrift below the number
\* of stored items.
RemoveAtEnd ==
    /\ phase \in {"new", "free"}
    /\ StoredCount(Cur) - len < MaxDrift
    /\ \E addr \in EndAddrs : RemoveAt(addr)

NextAt == Ops \/ RemoveAtEnd

SpecAt == Init /\ [][NextAt]_vars

----------------------------------------------------------------------------
\* What the claims speak of: the nodes under the root, the items in order,
\* the depth of the leaves.

RECURSIVE Subtree(_, _)
Subtree(S, id) ==
    {id} \cup UNION {Subtree(S, S.nodes[id].children[i]) :
                        i \in DOMAIN S.nodes[id].children}

ReachIds(S) == IF S.root = NoId THEN {} ELSE Subtree(S, S.root)

RECURSIVE InOrder(_, _)
RECURSIVE InOrderFrom(_, _, _)
InOrderFrom(S, id, i) ==
    LET n == S.nodes[id]
    IN  IF i > Len(n.items) THEN <<>>
        ELSE <<n.items[i]>>
             \o (IF n.leaf THEN <<>> ELSE InOrder(S, n.children[i + 1]))
             \o InOrderFrom(S, id, i + 1)
InOrder(S, id) ==
    (IF S.nodes[id].leaf THEN <<>> ELSE InOrder(S, S.nodes[id].children[1]))
    \o InOrderFrom(S, id, 1)

ItemsInOrder(S) == IF S.root = NoId THEN <<>> ELSE InOrder(S, S.root)
ItemSet(S) == {ItemsInOrder(S)[i] : i \in DOMAIN ItemsInOrder(S)}
SubtreeKeys(S, id) == {InOrder(S, id)[i].key : i \in DOMAIN InOrder(S, id)}

RECURSIVE LeafDepths(_, _, _)
LeafDepths(S, id, d) ==
    IF S.nodes[id].leaf THEN {d}
    ELSE UNION {LeafDepths(S, S.nodes[id].children[i], d + 1) :
                   i \in DOMAIN S.nodes[id].children}

\* Number of levels of the tree.
RECURSIVE HeightFrom(_, _)
HeightFrom(S, id) ==
    IF S.nodes[id].leaf THEN 1 ELSE 1 + HeightFrom(S, S.nodes[id].children[1])
Height(S) == IF S.root = NoId THEN 0 ELSE HeightFrom(S, S.root)

StrictlyIncreasing(items) ==
    \A i \in 1..(Len(items) - 1) : items[i].key < items[i + 1].key

InOrderSorted(S) == StrictlyIncreasing(ItemsInOrder(S))

Sorted(S) ==
    /\ InOrderSorted(S)
    /\ \A id \in ReachIds(S) :
          LET n == S.nodes[id]
          IN  /\ StrictlyIncreasing(n.items)
              /\ ~n.leaf =>
                    /\ Len(n.children) = Len(n.items) + 1
                    /\ \A i \in DOMAIN n.items :
                          /\ \A k \in SubtreeKeys(S, n.children[i]) : k < n.items[i].key
                          /\ \A k \in SubtreeKeys(S, n.children[i + 1]) :
                                k > n.items[i].key

WithinCapacity(S) ==
    \A id \in ReachIds(S) \ {S.root} :
        /\ min_capacity(S.nodes[id]) <= item_count(S.nodes[id])
        /\ item_count(S.nodes[id]) <= max_capacity(S.nodes[id]) - 1

LeavesLevel(S) == S.root # NoId => Cardinality(LeafDepths(S, S.root, 0)) = 1

ParentsLinked(S) ==
    /\ S.root # NoId => S.nodes[S.root].parent = NoId
    /\ \A p \in ReachIds(S) :
          \A i \in DOMAIN S.nodes[p].children :
              S.nodes[S.nodes[p].children[i]].parent = p

LenCounts(S) == S.len = Len(ItemsInOrder(S))

EmptyIffNoRoot(S) ==
    /\ S.root = NoId <=> S.len = 0
    /\ S.root # NoId => item_count(S.nodes[S.root]) > 0

\* The separators of Sorted follow from the order of the traversal.
Valid(S) ==
    /\ InOrderSorted(S)
    /\ WithinCapacity(S)
    /\ LeavesLevel(S)
    /\ ParentsLinked(S)
    /\ LenCounts(S)
    /\ EmptyIffNoRoot(S)

\* The keys the claims about single operations are tried with in each state.
ProbeKeys == Keys \cup DeepKeys \cup {DeepLen + 1}

----------------------------------------------------------------------------
\* C1: over any sequence of operations the tree refines the abstract map:
\* get(k) answers the item (k, v) exactly when the abstract map binds k to v,
\* and None when it binds k to nothing.
C1_GetRefinesMap ==
    \A k \in ProbeKeys \cup (1..DeepLen) :
        get(Cur, k) = IF k \in DOMAIN amap THEN Some(Item(k, amap[k])) ELSE None

\* A tree of two levels whose root separator carries a payload stored over an
\* earlier one, with a key that was removed and a key bound in a leaf.
C1_Witness ==
    /\ phase = "free"
    /\ Height(Cur) = 2
    /\ nodes[root].items[1] = Item(5, 2)
    /\ get(Cur, 5) = Some(Item(5, 2))
    /\ get(Cur, 1) = None
    /\ get(Cur, 9) = Some(Item(9, 1))

\* C2: after any sequence of keyed operations the in-order traversal has
\* strictly increasing keys: the items of every node are sorted, and around
\* every item of an internal node the subtree on its left holds smaller keys
\* and the subtree on its right larger ones.
C2_InOrderStrictlyIncreasing == Sorted(Cur)

\* A tree of three levels whose root separator was replaced by a rotation or
\* a removal, and from which keys were removed.
C2_Witness ==
    /\ Height(Cur) = 3
    /\ nodes[root].items[1].key # 20
    /\ len < DeepLen

\* C3: after any sequence of insertions and removals every node other than
\* the root holds at least min_capacity and at most max_capacity - 1 items.
C3_NonRootNodesBalanced == WithinCapacity(Cur)

\* A tree of three levels with an internal node at its least count, a leaf
\* at its least count and a leaf at its greatest.
C3_Witness ==
    /\ Height(Cur) = 3
    /\ \E a, b, c \in ReachIds(Cur) \ {root} :
          /\ ~nodes[a].leaf /\ item_count(nodes[a]) = min_capacity(nodes[a])
          /\ nodes[b].leaf /\ item_count(nodes[b]) = min_capacity(nodes[b])
          /\ nodes[c].leaf /\ item_count(nodes[c]) = max_capacity(nodes[c]) - 1

\* C4: after any sequence of insertions and removals all leaves are at the
\* same depth.
C4_LeavesAtSameDepth == LeavesLevel(Cur)

\* The tree of three levels shrunk to two by the collapse of its root.
C4_Witness ==
    /\ phase = "deep"
    /\ Height(Cur) = 2

\* C5: every child listed by an internal node declares that node as its
\* parent, and the root declares no parent.
C5_ParentLinkage == ParentsLinked(Cur)

\* A tree of three levels in which the leaf of key 21, built under the right
\* internal node, hangs under the left one: a rotation of internal nodes moved
\* it, and re-parented it.
C5_Witness ==
    /\ Height(Cur) = 3
    /\ \E l \in ReachIds(Cur) :
          /\ nodes[l].leaf
          /\ \E i \in DOMAIN nodes[l].items : nodes[l].items[i].key = 21
          /\ nodes[l].parent = nodes[root].children[1]

\* C6: after every operation len equals the number of items stored in the
\* nodes under the root.
C6_LenIsItemCount == LenCounts(Cur)

\* C7: the root is absent exactly when len is 0, and a root that is present
\* holds at least one item.
C7_RootAbsentIffLenZero == EmptyIffNoRoot(Cur)

\* C8: insert of a key that is stored replaces the payload, answers the
\* displaced payload and leaves len as it was; insert of a key that is not
\* stored answers None and len grows by one.
C8_InsertReplacesOrAdds ==
    \A k \in ProbeKeys : \A v \in 1..MaxVal :
        LET before == get(Cur, k)
            check(r) ==
                /\ get(r.S, k) = Some(Item(k, v))
                /\ IF before # None
                   THEN r.ret = Some(before[1].value) /\ r.S.len = len
                   ELSE r.ret = None /\ r.S.len = len + 1
        IN  check(insert(Cur, Item(k, v)))

\* A tree of two levels where insert over the root separator, stored with
\* payload 2, answers that payload, and insert of the one key that is missing
\* answers None.
C8_Witness ==
    /\ phase = "free"
    /\ Height(Cur) = 2
    /\ get(Cur, 5) = Some(Item(5, 2))
    /\ insert(Cur, Item(5, 1)).ret = Some(2)
    /\ get(Cur, 1) = None
    /\ insert(Cur, Item(1, 1)).ret = None

\* C9: for a key k that is not stored, insert of (k, v) followed by remove of
\* k answers the item (k, v) and leaves a valid tree with the items and the
\* len there were.
C9_InsertRemoveRoundTrip ==
    \A k \in ProbeKeys : \A v \in 1..MaxVal :
        LET back(b) ==
                /\ b.ret = Some(Item(k, v))
                /\ ItemsInOrder(b.S) = ItemsInOrder(Cur)
                /\ b.S.len = len
                /\ Valid(b.S)
            forth(a) == back(remove(a.S, k))
        IN  get(Cur, k) = None => forth(insert(Cur, Item(k, v)))

\* A single full leaf and a key whose insert splits it and lands in the new
\* root: the remove takes it from the root, and the items are back in a tree
\* of two levels.
C9_Witness ==
    /\ Height(Cur) = 1
    /\ len = M
    /\ \E k \in Keys :
          /\ get(Cur, k) = None
          /\ Height(insert(Cur, Item(k, 1)).S) = 2
          /\ address_of(insert(Cur, Item(k, 1)).S, k).addr.id = insert(Cur, Item(k, 1)).S.root
          /\ Height(remove(insert(Cur, Item(k, 1)).S, k).S) = 2
          /\ ItemsInOrder(remove(insert(Cur, Item(k, 1)).S, k).S) = ItemsInOrder(Cur)

\* C10: remove and take of a key that is not stored answer None and leave
\* the nodes, the root and len as they were; a second remove of a key right
\* after the one that removed it answers None.
C10_RemoveOfAbsentKey ==
    \A k \in ProbeKeys :
        LET again(r) ==
                /\ r.ret # None
                /\ remove(r.S, k) = [S |-> r.S, ret |-> None]
        IN  IF get(Cur, k) = None
            THEN /\ remove(Cur, k) = [S |-> Cur, ret |-> None]
                 /\ take(Cur, k) = [S |-> Cur, ret |-> None]
            ELSE again(remove(Cur, k))

\* A tree of three levels from which the key of the root separator was
\* removed: another remove of it answers None.
C10_Witness ==
    /\ Height(Cur) = 3
    /\ get(Cur, 20) = None
    /\ 20 \notin DOMAIN amap
    /\ remove(Cur, 20).ret = None

----------------------------------------------------------------------------
\* C11: the iterator run to exhaustion yields len items, every stored item
\* once, in ascending key order.
C11_IterYieldsAllInOrder ==
    /\ ~iter_run(Cur).panic
    /\ iter_run(Cur).items = ItemsInOrder(Cur)
    /\ Len(iter_run(Cur).items) = len

\* The bounds the ranges are taken with, and whether a key is within them.
RangeKeys == IF phase = "deep" THEN {3, 4, 5, 20, 21} ELSE 0..(MaxKey + 1)
Bounds == {Unbounded} \cup {Included(k) : k \in RangeKeys} \cup {Excluded(k) : k \in RangeKeys}
Contains(start, end, k) ==
    /\ start.kind = "Included" => start.key <= k
    /\ start.kind = "Excluded" => start.key < k
    /\ end.kind = "Included" => k <= end.key
    /\ end.kind = "Excluded" => k < end.key
InRange(start, end, items) ==
    SelectSeq(items, LAMBDA item : Contains(start, end, item.key))

\* C12: every item a range emits has its key within the bounds of the range.
C12_RangeEmitsOnlyContained ==
    \A start, end \in Bounds :
        is_valid_range(start, end) =>
            LET within(run) ==
                    \A i \in DOMAIN run.items : Contains(start, end, run.items[i].key)
            IN  within(range_run(Cur, start, end))

\* C13: a range emits the stored items with a key within its bounds, each
\* once and in ascending key order, and then ends with None.
C13_RangeEmitsAllContained ==
    \A start, end \in Bounds :
        is_valid_range(start, end) =>
            LET all(run) ==
                    /\ ~run.panic
                    /\ run.items = InRange(start, end, ItemsInOrder(Cur))
            IN  all(range_run(Cur, start, end))

\* The predicates drain_filter and retain are taken with.
AllKeys == 1..(DeepLen + 1)
Evens == {k \in AllKeys : k % 2 = 0}
DrainPreds ==
    IF phase = "deep" THEN {Evens, AllKeys}
    ELSE {Evens, AllKeys \ Evens, AllKeys, {}, 1..4, {5}, AllKeys \ (1..3), AllKeys \ {9}}
Picked(items, pred) == SelectSeq(items, LAMBDA item : item.key \in pred)

\* C14: drain_filter run to exhaustion applies the predicate to every stored
\* item once, in ascending key order, yields the items it answers true for,
\* and leaves a valid tree holding the other items.
C14_DrainFilterSplitsItems ==
    \A pred \in DrainPreds :
        LET parts(r) ==
                /\ ~r.panic
                /\ r.seen = ItemsInOrder(Cur)
                /\ r.yielded = Picked(ItemsInOrder(Cur), pred)
                /\ ItemsInOrder(r.S) = Picked(ItemsInOrder(Cur), AllKeys \ pred)
                /\ Valid(r.S)
        IN  parts(drain_filter(Cur, pred, DeepLen + 1))

\* C15: a drain_filter dropped after any number of polls, none included,
\* still applies the predicate to every remaining item and leaves the tree a
\* full consumption leaves; retain(f) leaves the items f answers true for.
C15_DropFinishesTheFilter ==
    \A f \in DrainPreds :
        /\ \A polls \in 0..2 :
              LET same(early, full) ==
                      /\ ~early.panic
                      /\ early.seen = ItemsInOrder(Cur)
                      /\ early.S = full.S
              IN  same(drain_filter(Cur, f, polls), drain_filter(Cur, f, DeepLen + 1))
        /\ LET kept(r) ==
                   /\ ~r.panic
                   /\ ItemsInOrder(r.S) = Picked(ItemsInOrder(Cur), f)
                   /\ Valid(r.S)
           IN  kept(retain(Cur, f, AllKeys))

\* The keys update is tried with in each state.
UpdateKeys == OpKeys \cup {5, DeepLen + 1}

\* The items with a key below k, and above k.
Below(items, k) == SelectSeq(items, LAMBDA item : item.key < k)
Above(items, k) == SelectSeq(items, LAMBDA item : item.key > k)

\* C16: update hands the action the stored item of the key, or nothing when
\* the key is vacant, and answers what the action answers; the item the action
\* gives takes the place of the stored one (in place, len kept) or is inserted
\* (len + 1); with no item given the stored one is removed (len - 1) or
\* nothing changes; the tree is valid afterwards.
C16_UpdateFourCases ==
    LET cases(items) ==
            \A k \in UpdateKeys : \A nv \in {None} \cup {Some(v) : v \in 1..MaxVal} :
                LET before == get(Cur, k)
                    given == IF nv = None THEN <<>> ELSE <<Item(k, nv[1])>>
                    valid(S, after) ==
                        /\ after = Below(items, k) \o given \o Above(items, k)
                        /\ StrictlyIncreasing(after)
                        /\ S.len = Len(after)
                        /\ WithinCapacity(S) /\ LeavesLevel(S)
                        /\ ParentsLinked(S) /\ EmptyIffNoRoot(S)
                    done(r) ==
                        /\ r.ret = IF before = None THEN None ELSE Some(before[1].value)
                        /\ r.S.len = len + Len(given) - Len(before)
                        /\ valid(r.S, ItemsInOrder(r.S))
                        /\ before # None /\ nv # None =>
                              /\ address_of(r.S, k) = address_of(Cur, k)
                              /\ r.S.root = root /\ r.S.free = free
                        /\ before = None /\ nv = None => r.S = Cur
                IN  done(update(Cur, k, nv))
    IN  cases(ItemsInOrder(Cur))

\* A tree of three levels where the four cases happen: the root separator is
\* stored, and is overwritten or removed; key 3 is vacant, and is inserted or
\* left out.
C16_Witness ==
    /\ Height(Cur) = 3
    /\ nodes[root].items[1].key = 20
    /\ update(Cur, 20, Some(2)).ret = Some(1)
    /\ get(update(Cur, 20, Some(2)).S, 20) = Some(Item(20, 2))
    /\ update(Cur, 20, None).S.len = len - 1
    /\ get(Cur, 3) = None
    /\ update(Cur, 3, Some(1)).S.len = len + 1
    /\ update(Cur, 3, None).S = Cur

\* The keys remove_at is tried with in each state.
RemoveKeys == OpKeys \cup {5, 25}

\* C17: remove_at on the address of a stored item answers the item and an
\* address at which insert_at puts the item back: the tree is valid again and
\* holds the items it held.
C17_RemoveAtAddressDenotesPosition ==
    LET cases(items) ==
            \A k \in RemoveKeys :
                LET valid(S, after) ==
                        /\ after = items
                        /\ S.len = Len(after)
                        /\ WithinCapacity(S) /\ LeavesLevel(S)
                        /\ ParentsLinked(S) /\ EmptyIffNoRoot(S)
                    back(b) == ~b.panic /\ valid(b.S, ItemsInOrder(b.S))
                    gone(r) ==
                        /\ r.ret # None
                        /\ r.ret[1].item = get(Cur, k)[1]
                        /\ ItemsInOrder(r.S) = Below(items, k) \o Above(items, k)
                        /\ back(insert_at(r.S, r.ret[1].addr, r.ret[1].item))
                IN  get(Cur, k) # None => gone(remove_at(Cur, address_of(Cur, k).addr))
    IN  cases(ItemsInOrder(Cur))

\* A tree of three levels where the removal of a stored key merges nodes up
\* to the root, which collapses, and where the key in the root is stored too
\* (a removal from an internal node); insert_at at the address answered
\* brings the items back.
C17_Witness ==
    /\ Height(Cur) = 3
    /\ nodes[root].items[1].key \in RemoveKeys
    /\ \E k \in RemoveKeys :
          /\ get(Cur, k) # None
          /\ Height(remove_at(Cur, address_of(Cur, k).addr).S) = 2
          /\ ItemsInOrder(insert_at(remove_at(Cur, address_of(Cur, k).addr).S,
                                    remove_at(Cur, address_of(Cur, k).addr).ret[1].addr,
                                    Item(k, 1)).S) = ItemsInOrder(Cur)

\* C18: for a key that is not stored, address_of answers an address in Err,
\* and insert_exactly_at at that address answers an address at which the
\* inserted item is read, splits up to a new root included.
C18_InsertExactlyAtAnswersItemAddress ==
    \A k \in ProbeKeys : \A v \in 1..MaxVal :
        LET placed(r) == item_at(r.S, r.addr) = Some(Item(k, v))
            at(a) == ~a.ok /\ placed(insert_exactly_at(Cur, a.addr, Item(k, v), NoId))
        IN  get(Cur, k) = None => at(address_of(Cur, k))

\* The tree of two levels one insertion short of three: the insertion of the
\* key past the last one splits a leaf and then the root, under a new root,
\* and the address answered is in the new right leaf.
C18_Witness ==
    /\ phase = "build"
    /\ Height(Cur) = 2
    /\ get(Cur, DeepLen + 1) = None
    /\ Height(insert_exactly_at(Cur, address_of(Cur, DeepLen + 1).addr,
                                Item(DeepLen + 1, 1), NoId).S) = 3
    /\ insert_exactly_at(Cur, address_of(Cur, DeepLen + 1).addr,
                         Item(DeepLen + 1, 1), NoId).addr
         # address_of(Cur, DeepLen + 1).addr

\* C19: for the address a of a stored key, the address before a, if any, is
\* another address whose next address is a; and the address after a, if any,
\* is another address whose previous address is a.
C19_NextAndPreviousAreInverse ==
    \A k \in ProbeKeys \cup (1..DeepLen) :
        LET around(a, p, n) ==
                /\ p # None => p[1] # a /\ next_item_address(Cur, p[1]) = Some(a)
                /\ n # None => n[1] # a /\ previous_item_address(Cur, n[1]) = Some(a)
            at(a) == around(a, previous_item_address(Cur, a),
                            next_item_address(Cur, a))
        IN  get(Cur, k) # None => at(address_of(Cur, k).addr)

\* A tree of three levels, reshaped by removals: the item in the root has the
\* last item of a leaf before it and the first item of a leaf after it.
C19_Witness ==
    /\ Height(Cur) = 3
    /\ len < DeepLen
    /\ previous_item_address(Cur, Addr(root, 0)) # None
    /\ nodes[previous_item_address(Cur, Addr(root, 0))[1].id].leaf
    /\ next_item_address(Cur, Addr(root, 0)) # None
    /\ nodes[next_item_address(Cur, Addr(root, 0))[1].id].leaf
    /\ get(Cur, nodes[root].items[1].key) # None

\* C20: the consuming iterator, whatever the order of the calls of next and
\* next_back, yields every item exactly once, the front items ascending and
\* the back items descending, never releases a node that holds an item not
\* yet yielded, never releases a node twice, and has released every node of
\* the tree exactly once when no item remains; after that both calls answer
\* None and release nothing.
FirstPolls == IF phase = "deep" THEN {5, 24, DeepLen + 3} ELSE {0, 1, 2, 4, MaxKey}
Periods == IF phase = "deep" THEN {2} ELSE {1, 2}
Schedules ==
    {Schedule(f, n, p) : f \in BOOLEAN, n \in FirstPolls, p \in Periods}

Reversed(s) == [i \in 1..Len(s) |-> s[Len(s) + 1 - i]]

ReleasedOnce(S, r) ==
    LET count == Cardinality(DOMAIN S.nodes)
    IN  /\ DOMAIN r.S.nodes = {}
        /\ Len(r.S.free) = count + Len(S.free)
        /\ SubSeq(r.S.free, count + 1, Len(r.S.free)) = S.free
        /\ {r.S.free[i] : i \in 1..count} = DOMAIN S.nodes

IntoIterOk(S, items, r) ==
    /\ ~r.panic
    /\ ~r.early
    /\ r.len = 0
    /\ StrictlyIncreasing(r.front)
    /\ StrictlyIncreasing(Reversed(r.back))
    /\ r.front \o Reversed(r.back) = items
    /\ ReleasedOnce(S, r)
    /\ into_iter_next(r) = r
    /\ into_iter_next_back(r) = r

C20_IntoIterYieldsOnceReleasesOnce ==
    LET all(items, it) ==
            \A sched \in Schedules : IntoIterOk(Cur, items, into_iter_run(it, sched, 1))
    IN  all(ItemsInOrder(Cur), into_iter_new(Cur))

\* Witness: a tree of three levels consumed from both sides in turn, both
\* sides having yielded items, every node released.
C20_Witness ==
    /\ Height(Cur) = 3
    /\ LET r == into_iter_run(into_iter_new(Cur), Schedule(TRUE, 5, 2), 1)
       IN  /\ Len(r.front) > 5
           /\ Len(r.back) > 5
           /\ DOMAIN r.S.nodes = {}

\* C21: the destructor of every item of the tree runs exactly once when the
\* tree is cleared, and when it is consumed by into_iter, whether the
\* iterator is polled until no item remains or let go after some polls from
\* the front or from the back; it does not run when the tree is forgotten.
DropPolls == IF phase = "deep" THEN {1, 24} ELSE 0..MaxKey

DestroyedOnce(S, dropped) == \A item \in ItemSet(S) : Count(dropped, item) = 1

C21_ItemsDestroyedOnce ==
    /\ DestroyedOnce(Cur, clear_dropped(Cur))
    /\ forget_dropped(Cur) = <<>>
    /\ \A from_front \in BOOLEAN, n \in DropPolls :
          LET polled(it) == IF from_front THEN into_iter_next(it)
                            ELSE into_iter_next_back(it)
              RECURSIVE polls(_, _)
              polls(it, i) == IF i > n THEN it ELSE polls(polled(it), i + 1)
          IN  DestroyedOnce(Cur, into_iter_dropped(polls(into_iter_new(Cur), 1)))

\* C22: the mutable iterator, whatever the order of the calls of next and
\* next_back, never emits two references to the same item, and emits as many
\* references as the tree has items before it answers None.
C22_IterMutEmitsEachItemOnce ==
    \A sched \in Schedules :
        LET r == iter_mut_run(Cur, iter_mut_new(Cur), sched, 1, <<>>)
        IN  /\ ~r.panic
            /\ Len(r.emitted) = len
            /\ \A i, j \in DOMAIN r.emitted : r.emitted[i] = r.emitted[j] => i = j

\* C23: pop_first removes and answers the item of the smallest key and
\* pop_last the item of the greatest key; the tree left is valid, holds one
\* item less, and every key left is greater (pop_first), smaller (pop_last)
\* than the key answered.  On an empty tree both answer None and change
\* nothing, and either of them repeated until None leaves the tree empty.
RECURSIVE pop_all(_, _, _)
pop_all(S, first, out) ==
    LET r == IF first THEN pop_first(S) ELSE pop_last(S)
    IN  IF r.ret = None THEN [S |-> r.S, items |-> out]
        ELSE pop_all(r.S, first, Append(out, r.ret[1]))

PopOk(S, items, r, popped, left) ==
    IF items = <<>> THEN r.ret = None /\ r.S = S
    ELSE /\ r.ret = Some(popped)
         /\ Valid(r.S)
         /\ r.S.len = S.len - 1
         /\ ItemsInOrder(r.S) = left
         /\ \A i \in DOMAIN left : IF popped = Head(items)
                                    THEN left[i].key > popped.key
                                    ELSE left[i].key < popped.key

PopAllOk(S, items, r) ==
    /\ r.items = items
    /\ r.S.root = NoId
    /\ r.S.len = 0
    /\ DOMAIN r.S.nodes = {}

C23_PopFirstAndPopLast ==
    LET ok(items) ==
            /\ PopOk(Cur, items, pop_first(Cur),
                     IF items = <<>> THEN <<>> ELSE Head(items),
                     IF items = <<>> THEN <<>> ELSE Tail(items))
            /\ PopOk(Cur, items, pop_last(Cur),
                     IF items = <<>> THEN <<>> ELSE items[Len(items)],
                     IF items = <<>> THEN <<>> ELSE SubSeq(items, 1, Len(items) - 1))
            /\ PopAllOk(Cur, items, pop_all(Cur, TRUE, <<>>))
            /\ PopAllOk(Cur, Reversed(items), pop_all(Cur, FALSE, <<>>))
    IN  ok(ItemsInOrder(Cur))

\* Witness: a tree of three levels whose pop_first and pop_last both leave a
\* tree of another shape, the leaf popped from having been rebalanced.
C23_Witness ==
    /\ Height(Cur) = 3
    /\ Cardinality(DOMAIN pop_first(Cur).S.nodes) < Cardinality(DOMAIN nodes)
    /\ pop_last(Cur).ret # None

\* C24: a.append(b) leaves b empty and a valid, holding exactly the keys of
\* the former a and b, the item of b for a key of both, with len the number
\* of distinct keys; when a was empty the two trees are swapped, and when b
\* was empty nothing changes.
OtherVal == MaxVal + 1
OtherKeys ==
    {<<>>, <<5>>, <<3, 1, 2>>, <<20, 21, DeepLen + 2>>,
     <<1, 2, 3, 4, 5, 6, 7, 8, 9, 10>>}

RECURSIVE Built(_, _, _)
Built(S, keys, i) ==
    IF i > Len(keys) THEN S
    ELSE Built(insert(S, Item(keys[i], OtherVal)).S, keys, i + 1)

RECURSIVE Merged(_, _)
Merged(a, b) ==
    IF a = <<>> THEN b
    ELSE IF b = <<>> THEN a
    ELSE IF Head(a).key < Head(b).key THEN <<Head(a)>> \o Merged(Tail(a), b)
    ELSE IF Head(a).key > Head(b).key THEN <<Head(b)>> \o Merged(a, Tail(b))
    ELSE <<Head(b)>> \o Merged(Tail(a), Tail(b))

AppendOk(a, b, r) ==
    /\ ~r.panic
    /\ is_empty(r.other) /\ r.other.len = 0 /\ DOMAIN r.other.nodes = {}
    /\ Valid(r.self)
    /\ ItemsInOrder(r.self) = Merged(ItemsInOrder(a), ItemsInOrder(b))
    /\ r.self.len = Len(Merged(ItemsInOrder(a), ItemsInOrder(b)))
    /\ is_empty(b) => r.self = a /\ r.other = b
    /\ is_empty(a) /\ ~is_empty(b) => r.self = b /\ r.other = a

C24_AppendMergesAndEmpties ==
    \A keys \in OtherKeys :
        LET ok(b) == AppendOk(Cur, b, append(Cur, b))
        IN  ok(Built(Default, keys, 1))

\* Witness: a tree of two levels or more appended with a tree of two levels
\* which shares keys with it.
C24_Witness ==
    /\ Height(Cur) >= 2
    /\ LET b == Built(Default, <<1, 2, 3, 4, 5, 6, 7, 8, 9, 10>>, 1)
       IN  /\ Height(b) = 2
           /\ \E i \in DOMAIN ItemsInOrder(Cur) : ItemsInOrder(Cur)[i].key = 5
           /\ Len(ItemsInOrder(append(Cur, b).self)) > Len(ItemsInOrder(Cur))

\* C25: clear and forget_all release every node of the tree exactly once and
\* leave the tree with no root and len 0; forget_all forgets every buffer it
\* releases, so that no destructor of an item runs.
ClearedOk(S, r) ==
    /\ r.root = NoId
    /\ r.len = 0
    /\ ReleasedOnce(S, [S |-> r])

C25_ClearAndForgetAllReleaseEveryNode ==
    /\ ClearedOk(Cur, clear(Cur))
    /\ ClearedOk(Cur, forget_all(Cur))
    /\ forget_dropped(Cur) = <<>>

\* Witness: a tree of three levels, cleared and forgotten.
C25_Witness ==
    /\ Height(Cur) = 3
    /\ Len(clear(Cur).free) > 10
    /\ Len(forget_all(Cur).free) > 10
    /\ Len(clear_dropped(Cur)) >= DeepLen - 1

\* C26: the construction of a range, by range or by range_mut, panics when
\* both bounds hold a key and the start key is greater than the end key, or
\* equal to it with both bounds Excluded; it panics in no other case.
MustPanic(start, end) ==
    /\ start.kind # "Unbounded"
    /\ end.kind # "Unbounded"
    /\ \/ start.key > end.key
       \/ start.key = end.key /\ start.kind = "Excluded" /\ end.kind = "Excluded"

C26_RangePanicsExactlyWhenInvalid ==
    \A start \in Bounds, end \in Bounds :
        /\ range_new(Cur, start, end).panic <=> MustPanic(start, end)
        /\ range_mut_new(Cur, start, end).panic <=> MustPanic(start, end)

\* Witness: on a tree of two levels, a range of two Excluded bounds of the
\* same stored key panics, and ranges of that key with an Included bound, of
\* the greatest key Excluded at the start, and of an Unbounded end do not.
C26_Witness ==
    /\ Height(Cur) = 2
    /\ item_at(Cur, address_of(Cur, 5).addr) # None
    /\ range_new(Cur, Excluded(5), Excluded(5)).panic
    /\ ~range_new(Cur, Included(5), Excluded(5)).panic
    /\ ~range_mut_new(Cur, Excluded(5), Included(5)).panic
    /\ ~range_new(Cur, Excluded(ItemsInOrder(Cur)[len].key), Unbounded).panic

\* C27: insert_exactly_at at the address nowhere on an empty tree makes a
\* root of one leaf holding the item, answers (root, 0) and sets len to 1,
\* whatever the right child given; it panics and leaves the tree as it is at
\* nowhere on a tree that is not empty and at any other address on an empty
\* tree.
Rights == {NoId, 0, 1}
SomeAddrs == {Addr(id, o) : id \in 0..2, o \in -1..1}

C27_InsertExactlyAtNowhere ==
    \A k \in Keys, right \in Rights :
        LET r == insert_exactly_at_or_panic(Cur, Nowhere, Item(k, 1), right)
        IN  IF is_empty(Cur)
            THEN /\ ~r.panic
                 /\ r.S.root = r.addr.id
                 /\ r.addr.offset = 0
                 /\ r.S.len = 1
                 /\ DOMAIN r.S.nodes = {r.S.root}
                 /\ r.S.nodes[r.S.root] = LeafNode(NoId, <<Item(k, 1)>>)
                 /\ \A addr \in SomeAddrs :
                       LET p == insert_exactly_at_or_panic(Cur, addr, Item(k, 1), right)
                       IN  p.panic /\ p.S = Cur
            ELSE r.panic /\ r.S = Cur

\* Witness: an empty tree whose storage has released nodes, so that the root
\* made is a slot taken from the free chain.
C27_Witness ==
    /\ is_empty(Cur)
    /\ Len(free) >= 3
    /\ insert_exactly_at_or_panic(Cur, Nowhere, Item(1, 1), NoId).S.root = Head(free)

\* C28: the insert of a binding whose key is stored changes the payload of
\* that one item and nothing else: its key, the other items, the nodes with
\* their ids, item counts, children and parents, the free slots, the root
\* and len stay as they were; the call answers the former payload.
NewVals == 1..(MaxVal + 1)

C28_InsertOnPresentKeyChangesOnlyValue ==
    \A k \in UpdateKeys \cup {10, 15, 25}, v \in NewVals :
        LET a == address_of(Cur, k)
            kept(old, r) ==
                /\ r.ret = Some(old.value)
                /\ r.S.root = root /\ r.S.len = len /\ r.S.free = free
                /\ DOMAIN r.S.nodes = DOMAIN nodes
                /\ \A id \in DOMAIN nodes :
                      /\ r.S.nodes[id].leaf = nodes[id].leaf
                      /\ r.S.nodes[id].parent = nodes[id].parent
                      /\ r.S.nodes[id].children = nodes[id].children
                      /\ Len(r.S.nodes[id].items) = Len(nodes[id].items)
                      /\ \A o \in DOMAIN nodes[id].items :
                            r.S.nodes[id].items[o] =
                                IF id = a.addr.id /\ o = a.addr.offset + 1
                                THEN Item(old.key, v)
                                ELSE nodes[id].items[o]
        IN  a.ok => kept(item_at(Cur, a.addr)[1], insert(Cur, Item(k, v)))

\* Witness: a tree of three levels in which a key of an internal node and a
\* key of a leaf are given another payload.
C28_Witness ==
    /\ Height(Cur) = 3
    /\ address_of(Cur, 20).ok /\ ~nodes[address_of(Cur, 20).addr.id].leaf
    /\ address_of(Cur, 1).ok /\ nodes[address_of(Cur, 1).addr.id].leaf
    /\ insert(Cur, Item(20, MaxVal + 1)).S # Cur
    /\ insert(Cur, Item(1, MaxVal + 1)).S # Cur

\* The buffers a node of the tree goes through while items are inserted in
\* it and removed from it: its first items, and its items with one more.
Shapes(n) ==
    {[n EXCEPT !.items = SubSeq(n.items, 1, j)] : j \in 0..item_count(n)}
        \cup {[n EXCEPT !.items = Append(n.items, Item(MaxKey + DeepLen, 1))]}

NewChild == Cardinality(DOMAIN nodes) + Len(free)
Overflowing(n) ==
    IF item_count(n) # max_capacity(n) - 1 THEN {}
    ELSE {node_insert(n, o, Item(0, 1), IF n.leaf THEN NoId ELSE NewChild) :
             o \in 0..item_count(n)}

\* C30: the split of an overflowing node of n items takes the median at
\* (n - 1) / 2: the items before it stay in the node in their order, the
\* item there is answered, the items after it go to the new node in their
\* order, for an internal node with their children, the right child of the
\* median becoming the first child of the new node; the new node has the
\* parent of the node, the count answered is the index of the median, and
\* neither node underflows.
SplitOk(n, r, count, m) ==
    /\ is_overflowing(n)
    /\ r.n.items = SubSeq(n.items, 1, m)
    /\ r.median = n.items[m + 1]
    /\ r.right.items = SubSeq(n.items, m + 2, count)
    /\ r.n.leaf = n.leaf /\ r.right.leaf = n.leaf
    /\ IF n.leaf THEN r.n.children = <<>> /\ r.right.children = <<>>
       ELSE /\ r.n.children = SubSeq(n.children, 1, m + 1)
            /\ r.right.children = SubSeq(n.children, m + 2, count + 1)
            /\ r.right.children[1] = node_remove(n, m).child
    /\ r.n.parent = n.parent /\ r.right.parent = n.parent
    /\ r.len = m
    /\ ~is_underflowing(r.n) /\ ~is_underflowing(r.right)

C30_SplitAroundMedian ==
    \A id \in DOMAIN nodes : \A n \in Overflowing(nodes[id]) :
        /\ SplitOk(n, split_moving(n), item_count(n), (item_count(n) - 1) \div 2)
        /\ split(n) = split_moving(n)

\* Witness: a tree with a full leaf and a full internal node, whose
\* overflowing buffers split into halves of equal and of different counts.
C30_Witness ==
    \E a, b \in DOMAIN nodes :
        /\ nodes[a].leaf /\ Overflowing(nodes[a]) # {}
        /\ ~nodes[b].leaf /\ Overflowing(nodes[b]) # {}
        /\ \A n \in Overflowing(nodes[b]) :
              item_count(split_moving(n).n) < item_count(split_moving(n).right)
        /\ \A n \in Overflowing(nodes[a]) :
              item_count(split_moving(n).n) = item_count(split_moving(n).right)

\* The underflows of the tree: a leaf other than the root holding
\* min_capacity items, one item removed; and the parent of such a leaf once
\* the leaf was merged, when that leaves the parent, not the root, with less
\* than min_capacity items.
Merges(S, id) ==
    LET parent_id == S.nodes[id].parent
        index == child_index(S.nodes[parent_id], id)
        addr == Addr(id, 0)
    IN  /\ ~try_rotate_left(S, parent_id, index, addr).ok
        /\ ~try_rotate_right(S, parent_id, index, addr).ok

LeafUnderflows ==
    {[S |-> set_node(Cur, id, node_remove(nodes[id], 0).n), id |-> id] :
        id \in {x \in DOMAIN nodes : /\ nodes[x].leaf /\ nodes[x].parent # NoId
                                       /\ item_count(nodes[x]) = min_capacity(nodes[x])}}

ParentUnderflows ==
    {[S |-> merge(u.S, u.S.nodes[u.id].parent,
                  child_index(u.S.nodes[u.S.nodes[u.id].parent], u.id), Addr(u.id, 0)).S,
      id |-> u.S.nodes[u.id].parent] :
        u \in {v \in LeafUnderflows :
                  /\ Merges(v.S, v.id)
                  /\ nodes[nodes[v.id].parent].parent # NoId
                  /\ item_count(nodes[nodes[v.id].parent])
                        = min_capacity(nodes[nodes[v.id].parent])}}

\* C31: at the underflow of a node other than the root, rebalance rotates
\* left when the right sibling holds more than min_capacity items, else
\* rotates right when the left sibling does, and merges only when neither
\* does; the sibling a rotation takes from is left with min_capacity items
\* or more, the node is brought back to min_capacity, and the node a merge
\* leaves does not overflow.
UnderflowOk(S, id) ==
    LET parent_id == S.nodes[id].parent
        parent == S.nodes[parent_id]
        index == child_index(parent, id)
        addr == Addr(id, 0)
        right == IF index + 1 < child_count(parent) THEN child_id(parent, index + 1)
                 ELSE NoId
        left == IF index > 0 THEN child_id(parent, index - 1) ELSE NoId
        rich(x) == x # NoId /\ item_count(S.nodes[x]) > min_capacity(S.nodes[x])
        rotated(r, donor) ==
            /\ r.ok
            /\ rebalance(S, id, addr).S = r.S
            /\ item_count(r.S.nodes[donor]) = item_count(S.nodes[donor]) - 1
            /\ ~is_underflowing(r.S.nodes[donor])
            /\ item_count(r.S.nodes[id]) = item_count(S.nodes[id]) + 1
            /\ ~is_underflowing(r.S.nodes[id])
            /\ DOMAIN r.S.nodes = DOMAIN S.nodes
        merged(m, kept, gone) ==
            /\ ~try_rotate_left(S, parent_id, index, addr).ok
            /\ ~try_rotate_right(S, parent_id, index, addr).ok
            /\ DOMAIN m.S.nodes = DOMAIN S.nodes \ {gone}
            /\ ~is_overflowing(m.S.nodes[kept])
            /\ ~is_underflowing(m.S.nodes[kept])
            /\ item_count(m.S.nodes[parent_id]) = item_count(parent) - 1
            /\ rebalance(S, id, addr)
                  = rebalance_loop(m.S, parent_id, m.addr, m.balance)
    IN  /\ is_underflowing(S.nodes[id])
        /\ IF rich(right) THEN rotated(try_rotate_left(S, parent_id, index, addr), right)
           ELSE IF rich(left)
                THEN rotated(try_rotate_right(S, parent_id, index, addr), left)
           ELSE merged(merge(S, parent_id, index, addr),
                       IF index > 0 THEN left ELSE id,
                       IF index > 0 THEN id ELSE right)

C31_RotateLeftThenRightThenMerge ==
    \A u \in LeafUnderflows \cup ParentUnderflows : UnderflowOk(u.S, u.id)

\* Witness: a tree in which a leaf underflow is mended by a rotation to the
\* left, another by a rotation to the right, another by a merge, and in
\* which the underflow of an internal node is mended too.
C31_Witness ==
    /\ \E u \in LeafUnderflows :
          try_rotate_left(u.S, u.S.nodes[u.id].parent,
                          child_index(u.S.nodes[u.S.nodes[u.id].parent], u.id),
                          Addr(u.id, 0)).ok
    /\ \E u \in LeafUnderflows :
          /\ ~try_rotate_left(u.S, u.S.nodes[u.id].parent,
                              child_index(u.S.nodes[u.S.nodes[u.id].parent], u.id),
                              Addr(u.id, 0)).ok
          /\ try_rotate_right(u.S, u.S.nodes[u.id].parent,
                              child_index(u.S.nodes[u.S.nodes[u.id].parent], u.id),
                              Addr(u.id, 0)).ok
    /\ \E u \in LeafUnderflows : Merges(u.S, u.id)
    /\ ParentUnderflows # {}

\* Trees with one fault each, made from the tree of the state: a node whose
\* parent is itself, a node taken out of the storage, a leaf cut below
\* min_capacity, a leaf filled up to max_capacity with copies of its last
\* item, a node whose first two items are exchanged, a first or last item
\* given another key, and the first leaf hung in place of the first child
\* of the root.
FaultKeys == IF phase = "deep" THEN {0, DeepLen + 1} ELSE {0, 5, MaxKey + 1}

Padding(n) == [i \in 1..(max_capacity(n) - item_count(n)) |-> n.items[item_count(n)]]

Rekeyed(n, i, k) == [n EXCEPT !.items[i].key = k]

RECURSIVE FirstLeaf(_, _)
FirstLeaf(S, id) == IF S.nodes[id].leaf THEN id ELSE FirstLeaf(S, S.nodes[id].children[1])

Unlevelled(S) ==
    LET l == FirstLeaf(S, S.root)
    IN  [S EXCEPT !.nodes[S.root].children[1] = l, !.nodes[l].parent = S.root]

\* In the trees of three levels the faults are put in the last child of the
\* root and in the first leaf under it.
FaultIds(S) ==
    LET r == S.nodes[S.root]
    IN  IF phase = "deep" /\ ~r.leaf
        THEN {r.children[Len(r.children)], FirstLeaf(S, r.children[Len(r.children)])}
        ELSE ReachIds(S)

Faulty(S) ==
    LET ids == FaultIds(S)
        leaves == {id \in ids : S.nodes[id].leaf}
    IN  {set_node(S, id, [S.nodes[id] EXCEPT !.parent = id]) : id \in ids}
        \cup {[S EXCEPT !.nodes = [x \in DOMAIN S.nodes \ {id} |-> S.nodes[x]]] : id \in ids}
        \cup {set_node(S, id, [S.nodes[id] EXCEPT
                                 !.items = SubSeq(@, 1, min_capacity(S.nodes[id]) - 1)]) :
                 id \in {x \in leaves : item_count(S.nodes[x]) >= min_capacity(S.nodes[x])}}
        \cup {set_node(S, id, [S.nodes[id] EXCEPT !.items = @ \o Padding(S.nodes[id])]) :
                 id \in leaves}
        \cup {set_node(S, id, [S.nodes[id] EXCEPT
                                 !.items[1] = S.nodes[id].items[2],
                                 !.items[2] = S.nodes[id].items[1]]) :
                 id \in {x \in ids : item_count(S.nodes[x]) >= 2}}
        \cup {set_node(S, id, Rekeyed(S.nodes[id], 1, k)) : id \in ids, k \in FaultKeys}
        \cup {set_node(S, id, Rekeyed(S.nodes[id], item_count(S.nodes[id]), k)) :
                 id \in ids, k \in FaultKeys}
        \cup (IF Height(S) >= 3 THEN {Unlevelled(S)} ELSE {})

\* The properties of the claim, stated on the tree.
RECURSIVE AllPresent(_, _)
AllPresent(S, id) ==
    /\ id \in DOMAIN S.nodes
    /\ \A i \in DOMAIN S.nodes[id].children : AllPresent(S, S.nodes[id].children[i])

NodesSorted(S) ==
    \A id \in ReachIds(S) :
        \A i \in 1..(item_count(S.nodes[id]) - 1) :
            S.nodes[id].items[i].key <= S.nodes[id].items[i + 1].key

SeparatorsBound(S) ==
    \A id \in {x \in ReachIds(S) : ~S.nodes[x].leaf} :
        LET n == S.nodes[id]
        IN  \A i \in DOMAIN n.items :
                /\ \A k \in SubtreeKeys(S, n.children[i]) : k < n.items[i].key
                /\ \A k \in SubtreeKeys(S, n.children[i + 1]) : k > n.items[i].key

Satisfies(S) ==
    S.root # NoId =>
        /\ AllPresent(S, S.root)
        /\ ParentsLinked(S)
        /\ WithinCapacity(S)
        /\ LeavesLevel(S)
        /\ NodesSorted(S)
        /\ SeparatorsBound(S)

\* The node e.id of S violates the property the error e names.
Violates(S, e) ==
    LET n == S.nodes[e.id]
        above == {x \in DOMAIN S.nodes : \E i \in DOMAIN S.nodes[x].children :
                                            S.nodes[x].children[i] = e.id}
        \* the separators of the ancestors left (d = 0) and right (d = 1) of e.id
        bounds(d) ==
            UNION {{S.nodes[x].items[i].key :
                      i \in {j \in DOMAIN S.nodes[x].items :
                                e.id \in Subtree(S, S.nodes[x].children[j + 1 - d])}} :
                   x \in {y \in ReachIds(S) : ~S.nodes[y].leaf}}
    IN  CASE e.kind = "MissingNode" -> e.id \notin DOMAIN S.nodes
          [] e.kind = "WrongParent" ->
                IF e.id = S.root THEN n.parent # NoId ELSE n.parent \notin above
          [] e.kind = "Overflow" -> e.id # S.root /\ item_count(n) >= max_capacity(n)
          [] e.kind = "Underflow" -> e.id # S.root /\ item_count(n) < min_capacity(n)
          [] e.kind = "NotBalanced" -> ~LeavesLevel(S)
          [] e.kind = "UnsortedNode" ->
                \E i \in 1..(item_count(n) - 1) : n.items[i].key > n.items[i + 1].key
          [] e.kind = "UnsortedFromLeft" ->
                \E b \in bounds(0) : b >= n.items[1].key
          [] e.kind = "UnsortedFromRight" ->
                \E b \in bounds(1) : b <= n.items[item_count(n)].key
          [] OTHER -> FALSE

ValidateOk(S) ==
    LET e == validate(S)
    IN  /\ e = Ok <=> Satisfies(S)
        /\ e # Ok => Violates(S, e)

\* C32: validate answers Ok exactly when every node under the root is
\* there and linked to its parent, every node but the root is neither
\* overflowing nor underflowing, the leaves are at one depth, no item of a
\* node is smaller than the item before it, and every key lies strictly
\* between the separators of its ancestors; otherwise it answers the
\* error of a property that the node it names violates.
C32_ValidateOkExactlyWhenSatisfied ==
    /\ ValidateOk(Cur)
    /\ root # NoId => \A S \in Faulty(Cur) : ValidateOk(S)

\* Witness: a tree of three levels that validate accepts, of which the
\* faulty trees draw each of the eight errors and no other answer.
C32_Witness ==
    /\ Height(Cur) = 3
    /\ validate(Cur) = Ok
    /\ {validate(S).kind : S \in Faulty(Cur)}
          = {"MissingNode", "WrongParent", "Overflow", "Underflow", "NotBalanced",
             "UnsortedNode", "UnsortedFromLeft", "UnsortedFromRight"}

\* The offsets and the plain integers the arithmetic is tried with, those of
\* the addresses in the nodes of the tree, and the integer an offset stands
\* for.
Usizes == UNION {0..item_count(nodes[id]) : id \in DOMAIN nodes}
Offsets == {Offset_before} \cup {Offset_from(n) : n \in Usizes}
IntOf(a) == IF Offset_is_before(a) THEN -1 ELSE a
OffsetOf(i) == IF i = -1 THEN Offset_before ELSE Offset_from(i)
Agrees(r, i) == i >= -1 => r = Done(OffsetOf(i))

C33_IncrDecrCompare ==
    /\ Offset_incr(Offset_before) = Offset_from(0)
    /\ Offset_decr(Offset_from(0)) = Offset_before
    /\ Offset_decr(Offset_before) = Offset_before
    /\ \A a \in Offsets :
          /\ IntOf(Offset_incr(a)) = IntOf(a) + 1
          /\ IntOf(Offset_decr(a)) = IF IntOf(a) = -1 THEN -1 ELSE IntOf(a) - 1
          /\ \A b \in Offsets : Offset_lt(a, b) <=> IntOf(a) < IntOf(b)

\* C33: an offset behaves as an integer not smaller than -1, "before" being
\* -1: incr and decr step by one with decr stopping at "before", "before"
\* is smaller than every other offset, and the sum and the difference of
\* two offsets, or of an offset and a plain integer, are the offset of the
\* integer sum or difference whenever that is -1 or more, with no overflow
\* of the unsigned arithmetic.
C33_OffsetIsIntegerFromMinusOne ==
    /\ C33_IncrDecrCompare
    /\ \A a \in Offsets, debug \in BOOLEAN :
          /\ \A b \in Offsets :
                /\ Agrees(Offset_add(a, b, debug), IntOf(a) + IntOf(b))
                /\ Agrees(Offset_sub(a, b, debug), IntOf(a) - IntOf(b))
          /\ \A n \in Usizes :
                /\ Agrees(Offset_add_usize(a, n, debug), IntOf(a) + n)
                /\ Agrees(Offset_sub_usize(a, n, debug), IntOf(a) - n)

\* What the arithmetic does agree on: sums of two offsets that are not
\* "before", "before" plus a positive one, and differences that are not
\* negative.
C33_ArithmeticAwayFromBefore ==
    \A a \in Offsets, debug \in BOOLEAN :
        /\ \A b \in Offsets :
              /\ (~Offset_is_before(b) /\ IntOf(a) + IntOf(b) >= 0)
                    => Agrees(Offset_add(a, b, debug), IntOf(a) + IntOf(b))
              /\ (~Offset_is_before(b) /\ IntOf(a) - IntOf(b) >= 0)
                    => Agrees(Offset_sub(a, b, debug), IntOf(a) - IntOf(b))
              /\ (Offset_is_before(a) /\ Offset_is_before(b))
                    => Agrees(Offset_sub(a, b, debug), 0)
        /\ \A n \in Usizes :
              /\ IntOf(a) + n >= 0 => Agrees(Offset_add_usize(a, n, debug), IntOf(a) + n)
              /\ IntOf(a) - n >= 0 => Agrees(Offset_sub_usize(a, n, debug), IntOf(a) - n)

\* The entries after a number of calls of next_item.
RECURSIVE entries_mut_advance(_, _, _)
entries_mut_advance(S, c, n) ==
    IF n = 0 THEN c ELSE entries_mut_advance(S, entries_mut_next_item(S, c).c, n - 1)

Advances == IF phase = "deep" THEN {0, 4, 19} ELSE 0..MaxKey

\* The address of the entries is in a node of the storage, within its items
\* or right after them (nowhere in the empty tree), and the item there is
\* the expected one.
CursorAt(S, c, expected) ==
    /\ IF is_empty(S) THEN is_nowhere(c.addr)
       ELSE /\ has_node(S, c.addr.id)
            /\ c.addr.offset \in 0..item_count(S.nodes[c.addr.id])
    /\ entries_mut_peek(S, c) = expected

\* The keys strictly between the item visited last and the next one.
Between(S, n) ==
    LET items == ItemsInOrder(S)
    IN  {k \in 0..(MaxKey + 1) :
            /\ n >= 1 => items[n].key < k
            /\ n < Len(items) => k < items[n + 1].key}

EntriesInsertOk(S, n) ==
    LET c == entries_mut_advance(S, entries_mut_new(S), n)
    IN  \A k \in Between(S, n) :
            LET r == entries_mut_insert(S, c, Item(k, 1))
            IN  ~r.panic /\ CursorAt(r.S, r.c, entries_mut_peek(S, c))

EntriesRemoveOk(S, n) ==
    LET c == entries_mut_advance(S, entries_mut_new(S), n)
        items == ItemsInOrder(S)
        r == entries_mut_remove(S, c)
    IN  n < Len(items) =>
            /\ r.ret = Some(items[n + 1])
            /\ CursorAt(r.S, r.c, IF n + 2 <= Len(items) THEN Some(items[n + 2]) ELSE None)

C34_RemoveKeepsTheEntries ==
    root # NoId => \A n \in Advances : n <= Len(ItemsInOrder(Cur)) => EntriesRemoveOk(Cur, n)

\* C34: after an insert or a remove through the entries, with a key
\* strictly between the item visited last and the next one, the address of
\* the entries is in a node of the storage with an offset not above its item
\* count, and the item there is the item that was next before the insert,
\* or the successor of the removed item.
C34_EntriesAddressStaysValid ==
    root # NoId =>
        \A n \in Advances :
            n <= Len(ItemsInOrder(Cur)) =>
                EntriesInsertOk(Cur, n) /\ EntriesRemoveOk(Cur, n)

\* The items a range answers to a caller who polls as sched tells, each with
\* the side it was polled from, until a call answers None or panics, or
\* until the caller has polled `polls` times.
RECURSIVE range_polled(_, _, _, _, _, _, _)
range_polled(S, rg, mut, sched, i, polls, out) ==
    LET front == poll_front(sched, i)
        r == IF mut THEN IF front THEN range_mut_next(S, rg) ELSE range_mut_next_back(S, rg)
             ELSE IF front THEN range_next(S, rg) ELSE range_next_back(S, rg)
    IN  IF i > polls THEN [out |-> out, panic |-> FALSE, ended |-> FALSE]
        ELSE IF r.panic \/ r.ret = None
             THEN [out |-> out, panic |-> r.panic, ended |-> ~r.panic]
        ELSE range_polled(S, r.rg, mut, sched, i + 1, polls,
                          Append(out, [item |-> r.ret[1], front |-> front]))

RangePolls == {Schedule(f, n, 1) : f \in BOOLEAN, n \in {0, 1, MaxKey + 1}}
RangePolledKeys == IF phase = "deep" THEN {4, 21} ELSE {2, 4, 7}
RangePolledBounds ==
    {Included(k) : k \in RangePolledKeys} \cup {Excluded(k) : k \in RangePolledKeys}

\* The items polled from the front in their order, then the items polled
\* from the back in the reverse of their order, are the items of the range
\* in ascending order, and the call after the last of them answers None.
RangePolledOk(S, start, end, mut, sched) ==
    LET rg == IF mut THEN range_mut_new(S, start, end) ELSE range_new(S, start, end)
        expected == InRange(start, end, ItemsInOrder(S))
        r == range_polled(S, rg, mut, sched, 1, Len(expected) + 1, <<>>)
        fronts == SelectSeq(r.out, LAMBDA e : e.front)
        backs == SelectSeq(r.out, LAMBDA e : ~e.front)
        items(es) == [i \in 1..Len(es) |-> es[i].item]
    IN  /\ ~rg.panic
        /\ ~r.panic
        /\ r.ended
        /\ items(fronts) \o Reversed(items(backs)) = expected

\* C35: a range and a mutable range, polled with next and next_back in any
\* order, answer each item of the range exactly once: next the smallest
\* item not yet answered, next_back the greatest, and both None once every
\* item of the range was answered.
C35_RangeIsDoubleEnded ==
    \A start, end \in RangePolledBounds :
        is_valid_range(start, end) =>
            \A mut \in BOOLEAN, sched \in RangePolls :
                RangePolledOk(Cur, start, end, mut, sched)

\* The same for a caller who polls with next only.
C35_RangeFromTheFront ==
    \A start, end \in RangePolledBounds :
        is_valid_range(start, end) =>
            \A mut \in BOOLEAN :
                RangePolledOk(Cur, start, end, mut, Schedule(TRUE, MaxKey + 1, 1))

\* What an iterator of the map answers to a caller who polls as sched
\* tells, each answer with the side it was polled from, until a call answers
\* None or panics, or until the caller has polled `polls` times.
RECURSIVE map_polled(_, _, _, _, _, _, _)
map_polled(S, it, kind, sched, i, polls, out) ==
    LET front == poll_front(sched, i)
        r == IF front THEN map_iter_next(S, it, kind) ELSE map_iter_next_back(S, it, kind)
    IN  IF i > polls THEN [out |-> out, panic |-> FALSE, ended |-> FALSE]
        ELSE IF r.panic \/ r.ret = None
             THEN [out |-> out, panic |-> r.panic, ended |-> ~r.panic]
        ELSE map_polled(S, r.it, kind, sched, i + 1, polls,
                        Append(out, [e |-> r.ret[1], front |-> front]))

MapPolls == {Schedule(f, n, 1) : f \in BOOLEAN, n \in {0, 1}}

\* The range the iterators Range and RangeMut are taken on: every key from
\* 0 up to the greatest key of the tree.
MapPolledOk(S, kind, sched) ==
    LET items == ItemsInOrder(S)
        start == Included(0)
        end == Included(items[Len(items)].key)
        r == map_polled(S, map_iter_new(S, kind, start, end), kind, sched, 1,
                        Len(items) + 1, <<>>)
        fronts == SelectSeq(r.out, LAMBDA x : x.front)
        backs == SelectSeq(r.out, LAMBDA x : ~x.front)
        answers(es) == [i \in 1..Len(es) |-> es[i].e]
    IN  /\ ~r.panic
        /\ r.ended
        /\ answers(fronts) \o Reversed(answers(backs))
              = [i \in 1..Len(items) |-> map_item(kind, items[i])]

\* C36: each double-ended iterator of the map (Iter, Keys, Values,
\* ValuesMut, IterMut, Range, RangeMut) answers to next_back the entry of
\* the greatest key not yet answered, and to next the entry of the smallest;
\* a caller who alternates them is answered every entry exactly once.
C36_MapIteratorsAreDoubleEnded ==
    root # NoId /\ len = Len(ItemsInOrder(Cur)) =>
        \A kind \in MapIterators, sched \in MapPolls : MapPolledOk(Cur, kind, sched)

\* The same for a caller who polls with next only.
C36_MapIteratorsFromTheFront ==
    root # NoId /\ len = Len(ItemsInOrder(Cur)) =>
        \A kind \in MapIterators : MapPolledOk(Cur, kind, Schedule(TRUE, DeepLen + 2, 1))

\* The trees the tree of the state is compared with: itself, and itself
\* with one key inserted, removed, or bound to another value.
ComparedKeys == IF phase = "deep" THEN {1, 20, DeepLen, DeepLen + 1} ELSE 0..(MaxKey + 1)
Compared ==
    {Cur} \cup {insert(Cur, Item(k, v)).S : k \in ComparedKeys, v \in {1, OtherVal}}
          \cup {remove(Cur, k).S : k \in ComparedKeys}

\* The lexicographic order of two sequences of items, an item being smaller
\* by its key first and by its value next, a strict prefix being smaller.
RECURSIVE Lexicographic(_, _)
Lexicographic(a, b) ==
    IF a = <<>> /\ b = <<>> THEN "Equal"
    ELSE IF a = <<>> THEN "Less"
    ELSE IF b = <<>> THEN "Greater"
    ELSE IF a[1].key # b[1].key THEN int_cmp(a[1].key, b[1].key)
    ELSE IF a[1].value # b[1].value THEN int_cmp(a[1].value, b[1].value)
    ELSE Lexicographic(Tail(a), Tail(b))

ComparesOk(a, b) ==
    /\ storage_cmp(a, b) = "Equal" <=> storage_eq(a, b)
    /\ storage_partial_cmp(a, b) = Some(storage_cmp(a, b))
    /\ storage_cmp(a, b) = Lexicographic(ItemsInOrder(a), ItemsInOrder(b))

\* C37: cmp answers Equal for two trees exactly when eq answers true,
\* partial_cmp answers Some of what cmp answers, and both are the
\* lexicographic order of the items taken in iteration order, a strict
\* prefix being the smaller.
C37_CmpAgreesWithEq ==
    len = Len(ItemsInOrder(Cur)) =>
        \A b \in Compared :
            b.len = Len(ItemsInOrder(b)) => ComparesOk(Cur, b) /\ ComparesOk(b, Cur)

\* What eq and partial_cmp do by themselves: the lexicographic order.
C37_EqAndPartialCmp ==
    len = Len(ItemsInOrder(Cur)) =>
        \A b \in Compared :
            b.len = Len(ItemsInOrder(b)) =>
                /\ storage_partial_cmp(Cur, b)
                      = Some(Lexicographic(ItemsInOrder(Cur), ItemsInOrder(b)))
                /\ storage_eq(Cur, b) <=> storage_partial_cmp(Cur, b) = Some("Equal")

\* C38: remove_at at an address of a node of the tree that holds no item,
\* the offset being the item count of the node, answers None and leaves the
\* tree as it was: the nodes, the root and len.
C38_RemoveAtPastTheItemsChangesNothing ==
    \A addr \in EndAddrs :
        /\ remove_at(Cur, addr).ret = None
        /\ remove_at(Cur, addr).S = Cur

\* The same but for len.
C38_RemoveAtPastTheItemsKeepsTheNodes ==
    \A addr \in EndAddrs :
        /\ remove_at(Cur, addr).ret = None
        /\ remove_at(Cur, addr).S = [Cur EXCEPT !.len = len - 1]

\* The allocated ids are the ids of the nodes under the root; the released
\* ids are released once each, none of them is allocated, and together with
\* the allocated ones they are the ids ever allocated: a release of an id
\* that is not allocated would break this.
AllocatedAreReachable(S) ==
    LET released == {S.free[i] : i \in DOMAIN S.free}
    IN  /\ DOMAIN S.nodes = ReachIds(S)
        /\ Cardinality(released) = Len(S.free)
        /\ released \cap DOMAIN S.nodes = {}
        /\ released \cup DOMAIN S.nodes = 0..(Cardinality(DOMAIN S.nodes) + Len(S.free) - 1)

\* C39: after every completed insert, remove, update, pop or clear (the
\* steps of the state machine) and after a drain_filter run on the tree of the
\* state, the allocated node ids are exactly the ids reachable from the
\* root, and no id is released that is not allocated.
C39_AllocatedIdsAreTheReachableOnes ==
    /\ AllocatedAreReachable(Cur)
    /\ \A pred \in DrainPreds :
          AllocatedAreReachable(drain_filter(Cur, pred, DeepLen + 1).S)

\* Witness: a tree of several nodes, with ids released by earlier merges,
\* out of which a drain_filter releases further nodes.
C39_Witness ==
    /\ free # <<>>
    /\ Cardinality(DOMAIN nodes) >= 3
    /\ \E pred \in DrainPreds :
          Len(drain_filter(Cur, pred, DeepLen + 1).S.free) > Len(free)

====
